---- MODULE Spec2Model ----
(***************************************************************************)
(* A model of aten/src/ATen/native/ReduceOps.cpp: the meta functions that  *)
(* resolve the output dtype of a reduction, the impl functions that fill   *)
(* or dispatch, and the scan / difference / variance helpers.              *)
(*                                                                         *)
(* Every operator call is one step: it starts in pc = "idle", takes its    *)
(* arguments from bounded sets, and ends in pc = "done" with the result,   *)
(* the reported error and the kernel stubs it invoked.                     *)
(***************************************************************************)
EXTENDS Integers, Sequences, FiniteSets, TLC

VARIABLES
    pc,     \* "idle" before the call, "done" after it
    op,     \* name of the operator that was called
    args,   \* the arguments of the call (a record)
    ret,    \* what the call produced (a record)
    err,    \* "none", or the kind of error the call reported
    stub    \* the sequence of kernel stubs the call invoked

vars == <<pc, op, args, ret, err, stub>>

----------------------------------------------------------------------------
(* c10 scalar types.                                                       *)

ScalarTypes ==
    {"Byte", "Char", "Short", "Int", "Long", "Half", "Float", "Double",
     "ComplexHalf", "ComplexFloat", "ComplexDouble", "Bool", "BFloat16"}

nullopt == "nullopt"

undefined == "undefined"

\* an optional<ScalarType>
OptScalarTypes == ScalarTypes \cup {nullopt}

\* the dtype of a result tensor that may be undefined
ResultDtypes == ScalarTypes \cup {undefined}

isIntegralType(t, includeBool) ==
    \/ t \in {"Byte", "Char", "Int", "Long", "Short"}
    \/ (includeBool /\ t = "Bool")

isFloatingType(t) == t \in {"Double", "Float", "Half", "BFloat16"}

isComplexType(t) == t \in {"ComplexHalf", "ComplexFloat", "ComplexDouble"}

toRealValueType(t) ==
    CASE t = "ComplexHalf" -> "Half"
      [] t = "ComplexFloat" -> "Float"
      [] t = "ComplexDouble" -> "Double"
      [] OTHER -> t

\* optional<T>::value_or
value_or(opt, dflt) == IF opt = nullopt THEN dflt ELSE opt

----------------------------------------------------------------------------
(* Dtype resolution of the meta functions.                                 *)

get_dtype_from_self(self_dtype, dtype, promote_integers) ==
    IF dtype # nullopt
    THEN dtype
    ELSE IF promote_integers /\ isIntegralType(self_dtype, TRUE)
         THEN "Long"
         ELSE self_dtype

infer_dtype_from_optional_NoResult(self_dtype, opt_dtype, result_dtype) ==
    get_dtype_from_self(self_dtype, opt_dtype, TRUE)

infer_dtype_from_optional(self_dtype, opt_dtype, result_dtype) ==
    IF result_dtype # undefined
    THEN value_or(opt_dtype, result_dtype)
    ELSE get_dtype_from_self(self_dtype, opt_dtype, TRUE)

cum_ops_dtype_NoPromote(self_dtype, dtype, result_dtype) ==
    IF result_dtype # undefined
    THEN value_or(dtype, result_dtype)
    ELSE value_or(dtype, self_dtype)

\* the out_dtype of meta_func_cum_ops
cum_ops_dtype(self_dtype, dtype, result_dtype) ==
    IF result_dtype # undefined
    THEN value_or(dtype, result_dtype)
    ELSE LET is_integral == isIntegralType(self_dtype, TRUE)
         IN  value_or(dtype, IF is_integral THEN "Long" ELSE self_dtype)

get_result_or_self_value_dtype_SelfFirst(self_dtype, result_dtype, dtype) ==
    value_or(dtype, toRealValueType(self_dtype))

get_result_or_self_value_dtype(self_dtype, result_dtype, dtype) ==
    IF result_dtype # undefined
    THEN result_dtype
    ELSE value_or(dtype, toRealValueType(self_dtype))

check_floating_or_complex_dtype_FloatOnly(dtype) == isFloatingType(dtype)

\* TRUE when the TORCH_CHECK passes
check_floating_or_complex_dtype(dtype) ==
    isFloatingType(dtype) \/ isComplexType(dtype)

\* A meta function: the TORCH_CHECK first, then resize_reduction / set_output
\* with the resolved dtype.  A failed check leaves the output unset.
MetaArgs(self_dtype, dtype, result_dtype) ==
    [self_dtype |-> self_dtype, dtype |-> dtype, result_dtype |-> result_dtype]

MetaRet(ok, out_dtype) ==
    IF ok
    THEN [output_set |-> TRUE, out_dtype |-> out_dtype]
    ELSE [output_set |-> FALSE, out_dtype |-> undefined]

MetaErr(ok) == IF ok THEN "none" ELSE "InvalidDtype"

meta_sum ==
    /\ pc = "idle"
    /\ \E s \in ScalarTypes, d \in OptScalarTypes, r \in ResultDtypes :
        /\ pc' = "done"
        /\ op' = "sum"
        /\ args' = MetaArgs(s, d, r)
        /\ ret' = MetaRet(TRUE, infer_dtype_from_optional(s, d, r))
        /\ err' = "none"
        /\ stub' = <<>>

meta_prod ==
    /\ pc = "idle"
    /\ \E s \in ScalarTypes, d \in OptScalarTypes, r \in ResultDtypes :
        /\ pc' = "done"
        /\ op' = "prod"
        /\ args' = MetaArgs(s, d, r)
        /\ ret' = MetaRet(TRUE, infer_dtype_from_optional(s, d, r))
        /\ err' = "none"
        /\ stub' = <<>>

meta_mean ==
    /\ pc = "idle"
    /\ \E s \in ScalarTypes, d \in OptScalarTypes, r \in ResultDtypes :
        LET ok == check_floating_or_complex_dtype(s)
        IN  /\ pc' = "done"
            /\ op' = "mean"
            /\ args' = MetaArgs(s, d, r)
            /\ ret' = MetaRet(ok, infer_dtype_from_optional(s, d, r))
            /\ err' = MetaErr(ok)
            /\ stub' = <<>>

meta_cumsum ==
    /\ pc = "idle"
    /\ \E s \in ScalarTypes, d \in OptScalarTypes, r \in ResultDtypes :
        /\ pc' = "done"
        /\ op' = "cumsum"
        /\ args' = MetaArgs(s, d, r)
        /\ ret' = MetaRet(TRUE, cum_ops_dtype(s, d, r))
        /\ err' = "none"
        /\ stub' = <<>>

meta_cumprod ==
    /\ pc = "idle"
    /\ \E s \in ScalarTypes, d \in OptScalarTypes, r \in ResultDtypes :
        /\ pc' = "done"
        /\ op' = "cumprod"
        /\ args' = MetaArgs(s, d, r)
        /\ ret' = MetaRet(TRUE, cum_ops_dtype(s, d, r))
        /\ err' = "none"
        /\ stub' = <<>>

\* TORCH_META_FUNC2(norm, ScalarOpt_dim): no dtype argument
meta_norm ==
    /\ pc = "idle"
    /\ \E s \in ScalarTypes, r \in ResultDtypes :
        LET ok == check_floating_or_complex_dtype(s)
        IN  /\ pc' = "done"
            /\ op' = "norm"
            /\ args' = MetaArgs(s, nullopt, r)
            /\ ret' = MetaRet(ok, get_result_or_self_value_dtype(s, r, nullopt))
            /\ err' = MetaErr(ok)
            /\ stub' = <<>>

\* TORCH_META_FUNC2(norm, ScalarOpt_dim_dtype): dtype is a plain ScalarType
meta_norm_dtype ==
    /\ pc = "idle"
    /\ \E s \in ScalarTypes, d \in ScalarTypes, r \in ResultDtypes :
        LET ok == check_floating_or_complex_dtype(d)
        IN  /\ pc' = "done"
            /\ op' = "norm_dtype"
            /\ args' = MetaArgs(s, d, r)
            /\ ret' = MetaRet(ok, get_result_or_self_value_dtype(s, r, d))
            /\ err' = MetaErr(ok)
            /\ stub' = <<>>

Init ==
    /\ pc = "idle"
    /\ op = "none"
    /\ args = [self_dtype |-> undefined]
    /\ ret = [output_set |-> FALSE]
    /\ err = "none"
    /\ stub = <<>>

NextMeta ==
    \/ meta_sum
    \/ meta_prod
    \/ meta_mean
    \/ meta_cumsum
    \/ meta_cumprod
    \/ meta_norm
    \/ meta_norm_dtype

SpecMeta == Init /\ [][NextMeta]_vars

----------------------------------------------------------------------------
(* Tensors: a shape and one value per index.  Dimensions are numbered from *)
(* 0 as in the code; the size of dimension d is shape[d + 1].              *)

Ranks == 0..2

MaxSize == 2

Shapes == UNION {[1..r -> 0..MaxSize] : r \in Ranks}

RECURSIVE SeqProd(_)
SeqProd(s) == IF s = <<>> THEN 1 ELSE Head(s) * SeqProd(Tail(s))

\* Tensor::numel
numel(shape) == SeqProd(shape)

SeqMax(s) == IF s = <<>> THEN 0
             ELSE CHOOSE m \in {s[k] : k \in 1..Len(s)} :
                      \A k \in 1..Len(s) : s[k] <= m

\* the index tuples of a tensor of the given shape (one, <<>>, for rank 0)
Indices(shape) ==
    {i \in [1..Len(shape) -> 0..(SeqMax(shape) - 1)] :
        \A k \in 1..Len(shape) : i[k] < shape[k]}

\* all tensors of the given shape with elements in vals
TensorsOf(shape, vals) ==
    {[shape |-> shape, data |-> d] : d \in [Indices(shape) -> vals]}

Tensors(vals) == UNION {TensorsOf(sh, vals) : sh \in Shapes}

\* Tensor::fill_ on a tensor of the given shape
Filled(shape, v) == [i \in Indices(shape) |-> v]

maybe_wrap_dim(dim, dim_post_expr) ==
    LET n == IF dim_post_expr <= 0 THEN 1 ELSE dim_post_expr
    IN  IF dim < 0 THEN dim + n ELSE dim

\* the dims maybe_wrap_dim accepts for a tensor of rank r
ValidDims(r) == LET n == IF r <= 0 THEN 1 ELSE r IN (0 - n)..(n - 1)

\* the dim lists a meta function lets through: every entry in range and
\* no dimension named twice
DimLists(r) ==
    {ds \in UNION {[1..n -> ValidDims(r)] : n \in 0..r} :
        \A j, k \in 1..Len(ds) :
            j # k => maybe_wrap_dim(ds[j], r) # maybe_wrap_dim(ds[k], r)}

\* make_dim_mask: an empty dim list means every dimension
make_dim_mask(dims, ndim) ==
    IF Len(dims) = 0
    THEN 0..(ndim - 1)
    ELSE {maybe_wrap_dim(dims[k], ndim) : k \in 1..Len(dims)}

RECURSIVE SelectDims(_, _, _)
\* the entries of s at the dimensions >= d that mask does not hold
SelectDims(s, mask, d) ==
    IF d >= Len(s) THEN <<>>
    ELSE (IF d \in mask THEN <<>> ELSE <<s[d + 1]>>) \o SelectDims(s, mask, d + 1)

\* get_reduction_shape
get_reduction_shape(shape, mask, keepdim) ==
    IF keepdim
    THEN [k \in 1..Len(shape) |-> IF (k - 1) \in mask THEN 1 ELSE shape[k]]
    ELSE SelectDims(shape, mask, 0)

\* the output index an input index is accumulated into
OutIndex(i, mask, keepdim) ==
    IF keepdim
    THEN [k \in 1..Len(i) |-> IF (k - 1) \in mask THEN 0 ELSE i[k]]
    ELSE SelectDims(i, mask, 0)

\* the input indices a reduction accumulates into output index o
Reduced(self, mask, keepdim, o) ==
    {i \in Indices(self.shape) : OutIndex(i, mask, keepdim) = o}

RECURSIVE SumOver(_, _)
SumOver(S, data) ==
    IF S = {} THEN 0
    ELSE LET i == CHOOSE x \in S : TRUE
         IN  data[i] + SumOver(S \ {i}, data)

RECURSIVE ProdOver(_, _)
ProdOver(S, data) ==
    IF S = {} THEN 1
    ELSE LET i == CHOOSE x \in S : TRUE
         IN  data[i] * ProdOver(S \ {i}, data)

\* the reduction iterator of make_reduction / make_reduction_from_out_ty:
\* it runs over the input's shape, so its numel is the input's
make_reduction(self, dims, keepdim) ==
    LET mask == make_dim_mask(dims, Len(self.shape))
    IN  [mask |-> mask,
         keepdim |-> keepdim,
         out_shape |-> get_reduction_shape(self.shape, mask, keepdim),
         numel |-> numel(self.shape)]

----------------------------------------------------------------------------
(* Floating-point results: a finite quotient n / d with d > 0, an          *)
(* infinity, or NaN.                                                       *)

NaN == [k |-> "nan", n |-> 0, d |-> 1]

Inf(sign) == [k |-> "inf", n |-> sign, d |-> 1]

Fin(n, d) == [k |-> "fin", n |-> n, d |-> d]

\* IEEE division of the finite value n / d by the integer m >= 0
fdiv(x, m) ==
    IF x.k # "fin" THEN x
    ELSE IF m # 0 THEN Fin(x.n, x.d * m)
    ELSE IF x.n = 0 THEN NaN
    ELSE Inf(IF x.n > 0 THEN 1 ELSE 0 - 1)

\* the same floating-point value
feq(a, b) ==
    /\ a.k = b.k
    /\ a.k = "fin" => a.n * b.d = b.n * a.d
    /\ a.k = "inf" => a.n = b.n

----------------------------------------------------------------------------
(* The impl functions of the reductions.  Each returns the output tensor   *)
(* and the kernel stubs it invoked.                                        *)

\* element values of the tensors that are summed and multiplied
ReduceVals == {1, 2}

\* element values of the tensors all / any are applied to
TruthVals == {0, 1}

Abs(x) == IF x < 0 THEN 0 - x ELSE x

RECURSIVE Pow(_, _)
Pow(x, p) == IF p = 0 THEN 1 ELSE x * Pow(x, p - 1)

RECURSIVE PowSum(_, _, _)
\* sum of |x|^p over the elements at S (the number of non-zeros for p = 0):
\* the p-th power of the p-norm
PowSum(S, data, p) ==
    IF S = {} THEN 0
    ELSE LET i == CHOOSE x \in S : TRUE
         IN  (IF p = 0 THEN (IF data[i] = 0 THEN 0 ELSE 1)
                       ELSE Pow(Abs(data[i]), p))
             + PowSum(S \ {i}, data, p)

and_kernel(S, data) == IF \A i \in S : data[i] # 0 THEN 1 ELSE 0

or_kernel(S, data) == IF \E i \in S : data[i] # 0 THEN 1 ELSE 0

\* mean_stub: the sum of the reduced elements over their number
mean_kernel(S, data) == Fin(SumOver(S, data), Cardinality(S))

\* what the kernel behind a stub computes from the input elements at S
\* (p is the norm's exponent; norm_stub is recorded as the p-th power of
\* the norm)
KernelValue(stubname, p, S, data) ==
    CASE stubname \in {"sum_stub", "nansum_stub"} -> SumOver(S, data)
      [] stubname = "prod_stub" -> ProdOver(S, data)
      [] stubname = "norm_stub" -> PowSum(S, data, p)
      [] stubname = "and_stub" -> and_kernel(S, data)
      [] stubname = "or_stub" -> or_kernel(S, data)
      [] stubname = "mean_stub" -> mean_kernel(S, data)

\* a reduction kernel: one output element per output index, computed from
\* the input elements reduced into it
ReduceKernel(stubname, p, self, iter) ==
    [o \in Indices(iter.out_shape) |->
        KernelValue(stubname, p, Reduced(self, iter.mask, iter.keepdim, o),
                    self.data)]

\* what an impl function leaves behind: the output filled with one value
\* (fill = <<value>>) or written by the kernel stubs it invoked (fill = <<>>)
FillOutput(iter, v) ==
    [shape |-> iter.out_shape, data |-> Filled(iter.out_shape, v),
     fill |-> <<v>>, stub |-> <<>>, err |-> "none"]

\* stub(iter.device_type(), iter)
StubOutput(stubname, p, self, iter) ==
    [shape |-> iter.out_shape, data |-> ReduceKernel(stubname, p, self, iter),
     fill |-> <<>>, stub |-> <<stubname>>, err |-> "none"]

Rejected(kind) ==
    [shape |-> <<>>, data |-> <<>>, fill |-> <<>>, stub |-> <<>>, err |-> kind]

sum_out_NoZeroFill(self, dim, keepdim) ==
    LET iter == make_reduction(self, dim, keepdim)
    IN  StubOutput("sum_stub", 0, self, iter)

\* TORCH_IMPL_FUNC(sum_out)
sum_out(self, dim, keepdim) ==
    LET iter == make_reduction(self, dim, keepdim)
    IN  IF iter.numel = 0
        THEN FillOutput(iter, 0)
        ELSE StubOutput("sum_stub", 0, self, iter)

\* nansum_out; the inputs hold no NaN, for which nansum_stub sums
nansum_out(self, self_dtype, dim, keepdim) ==
    IF isComplexType(self_dtype)
    THEN Rejected("InvalidDtype")
    ELSE IF isIntegralType(self_dtype, TRUE)
    THEN sum_out(self, dim, keepdim)
    ELSE LET iter == make_reduction(self, dim, keepdim)
         IN  IF iter.numel = 0
             THEN FillOutput(iter, 0)
             ELSE StubOutput("nansum_stub", 0, self, iter)

impl_func_prod(self, dims, keepdim) ==
    LET iter == make_reduction(self, dims, keepdim)
    IN  IF iter.numel = 0
        THEN FillOutput(iter, 1)
        ELSE StubOutput("prod_stub", 0, self, iter)

\* an OptionalScalarRef: <<>> or <<p>>
OptionalP == {<<>>, <<0>>, <<1>>}

\* impl_func_norm; the stub's output is recorded as the p-th power of the norm
impl_func_norm(self, opt_p, dim, keepdim) ==
    LET p == IF Len(opt_p) > 0 THEN opt_p[1] ELSE 2
        iter == make_reduction(self, dim, keepdim)
    IN  IF iter.numel = 0
        THEN FillOutput(iter, 0)
        ELSE StubOutput("norm_stub", p, self, iter)

toBool(x) == IF x # 0 THEN 1 ELSE 0

\* Tensor::item of a tensor with one element
item(self) == self.data[CHOOSE i \in Indices(self.shape) : TRUE]

allany_impl_NoSingle(identity, stubname, self, dims, keepdim) ==
    LET iter == make_reduction(self, dims, keepdim)
    IN  IF numel(self.shape) = 0
        THEN FillOutput(iter, identity)
        ELSE StubOutput(stubname, 0, self, iter)

allany_impl(identity, stubname, self, dims, keepdim) ==
    LET iter == make_reduction(self, dims, keepdim)
    IN  IF numel(self.shape) = 0
        THEN FillOutput(iter, identity)
        ELSE IF numel(self.shape) = 1
        THEN FillOutput(iter, toBool(item(self)))
        ELSE StubOutput(stubname, 0, self, iter)

RECURSIVE dim_prod_of(_, _)
\* the loop of mean_out: the product of self.size(d) for d in dim
dim_prod_of(shape, dim) ==
    IF dim = <<>> THEN 1
    ELSE shape[maybe_wrap_dim(Head(dim), Len(shape)) + 1]
             * dim_prod_of(shape, Tail(dim))

mean_dim_prod_Numel(shape, dim) == numel(shape)

\* dim_prod of mean_out
mean_dim_prod(shape, dim) ==
    IF Len(dim) = 0 \/ Len(shape) = 0
    THEN numel(shape)
    ELSE dim_prod_of(shape, dim)

\* TORCH_IMPL_FUNC(mean_out)
mean_out(self, device, dim, keepdim) ==
    IF device = "cpu"
    THEN LET dim_prod == mean_dim_prod(self.shape, dim)
             s == sum_out(self, dim, keepdim)
         IN  [s EXCEPT !.data =
                 [o \in DOMAIN s.data |-> fdiv(Fin(s.data[o], 1), dim_prod)]]
    ELSE LET iter == make_reduction(self, dim, keepdim)
         IN  IF iter.numel = 0
             THEN FillOutput(iter, NaN)
             ELSE StubOutput("mean_stub", 0, self, iter)

ReduceArgs(self, dim, keepdim) ==
    [self |-> self, dim |-> dim, keepdim |-> keepdim]

call_sum_out ==
    /\ pc = "idle"
    /\ \E self \in Tensors(ReduceVals), keepdim \in BOOLEAN :
        \E dim \in DimLists(Len(self.shape)) :
        LET r == sum_out(self, dim, keepdim)
        IN  /\ pc' = "done"
            /\ op' = "sum"
            /\ args' = ReduceArgs(self, dim, keepdim)
            /\ ret' = [shape |-> r.shape, data |-> r.data, fill |-> r.fill]
            /\ err' = r.err
            /\ stub' = r.stub

call_nansum_out ==
    /\ pc = "idle"
    /\ \E self \in Tensors(ReduceVals), keepdim \in BOOLEAN,
         self_dtype \in {"Long", "Float", "ComplexFloat"} :
        \E dim \in DimLists(Len(self.shape)) :
        LET r == nansum_out(self, self_dtype, dim, keepdim)
        IN  /\ pc' = "done"
            /\ op' = "nansum"
            /\ args' = [self |-> self, dim |-> dim, keepdim |-> keepdim,
                         self_dtype |-> self_dtype]
            /\ ret' = [shape |-> r.shape, data |-> r.data, fill |-> r.fill]
            /\ err' = r.err
            /\ stub' = r.stub

\* TORCH_IMPL_FUNC(prod_out): one dim
call_prod_out ==
    /\ pc = "idle"
    /\ \E self \in Tensors(ReduceVals), keepdim \in BOOLEAN :
        \E dim \in ValidDims(Len(self.shape)) :
        LET r == impl_func_prod(self, <<dim>>, keepdim)
        IN  /\ pc' = "done"
            /\ op' = "prod"
            /\ args' = ReduceArgs(self, <<dim>>, keepdim)
            /\ ret' = [shape |-> r.shape, data |-> r.data, fill |-> r.fill]
            /\ err' = r.err
            /\ stub' = r.stub

\* prod(self, opt_dtype): every dim
call_prod ==
    /\ pc = "idle"
    /\ \E self \in Tensors(ReduceVals) :
        LET r == impl_func_prod(self, <<>>, FALSE)
        IN  /\ pc' = "done"
            /\ op' = "prod"
            /\ args' = ReduceArgs(self, <<>>, FALSE)
            /\ ret' = [shape |-> r.shape, data |-> r.data, fill |-> r.fill]
            /\ err' = r.err
            /\ stub' = r.stub

call_norm_out ==
    /\ pc = "idle"
    /\ \E self \in Tensors(ReduceVals), keepdim \in BOOLEAN, opt_p \in OptionalP :
        \E dim \in DimLists(Len(self.shape)) :
        LET r == impl_func_norm(self, opt_p, dim, keepdim)
        IN  /\ pc' = "done"
            /\ op' = "norm"
            /\ args' = [self |-> self, dim |-> dim, keepdim |-> keepdim, p |-> opt_p]
            /\ ret' = [shape |-> r.shape, data |-> r.data, fill |-> r.fill]
            /\ err' = r.err
            /\ stub' = r.stub

call_all_out ==
    /\ pc = "idle"
    /\ \E self \in Tensors(TruthVals), keepdim \in BOOLEAN :
        \E dim \in ValidDims(Len(self.shape)) :
        LET r == allany_impl(1, "and_stub", self, <<dim>>, keepdim)
        IN  /\ pc' = "done"
            /\ op' = "all"
            /\ args' = ReduceArgs(self, <<dim>>, keepdim)
            /\ ret' = [shape |-> r.shape, data |-> r.data, fill |-> r.fill]
            /\ err' = r.err
            /\ stub' = r.stub

call_all_all_out ==
    /\ pc = "idle"
    /\ \E self \in Tensors(TruthVals) :
        LET r == allany_impl(1, "and_stub", self, <<>>, FALSE)
        IN  /\ pc' = "done"
            /\ op' = "all"
            /\ args' = ReduceArgs(self, <<>>, FALSE)
            /\ ret' = [shape |-> r.shape, data |-> r.data, fill |-> r.fill]
            /\ err' = r.err
            /\ stub' = r.stub

call_any_out ==
    /\ pc = "idle"
    /\ \E self \in Tensors(TruthVals), keepdim \in BOOLEAN :
        \E dim \in ValidDims(Len(self.shape)) :
        LET r == allany_impl(0, "or_stub", self, <<dim>>, keepdim)
        IN  /\ pc' = "done"
            /\ op' = "any"
            /\ args' = ReduceArgs(self, <<dim>>, keepdim)
            /\ ret' = [shape |-> r.shape, data |-> r.data, fill |-> r.fill]
            /\ err' = r.err
            /\ stub' = r.stub

call_any_all_out ==
    /\ pc = "idle"
    /\ \E self \in Tensors(TruthVals) :
        LET r == allany_impl(0, "or_stub", self, <<>>, FALSE)
        IN  /\ pc' = "done"
            /\ op' = "any"
            /\ args' = ReduceArgs(self, <<>>, FALSE)
            /\ ret' = [shape |-> r.shape, data |-> r.data, fill |-> r.fill]
            /\ err' = r.err
            /\ stub' = r.stub

call_mean_out ==
    /\ pc = "idle"
    /\ \E self \in Tensors(ReduceVals), keepdim \in BOOLEAN,
         device \in {"cpu", "cuda"} :
        \E dim \in DimLists(Len(self.shape)) :
        LET r == mean_out(self, device, dim, keepdim)
        IN  /\ pc' = "done"
            /\ op' = "mean"
            /\ args' = [self |-> self, dim |-> dim, keepdim |-> keepdim,
                         device |-> device]
            /\ ret' = [shape |-> r.shape, data |-> r.data, fill |-> r.fill]
            /\ err' = r.err
            /\ stub' = r.stub

NextReduce ==
    \/ call_sum_out
    \/ call_nansum_out
    \/ call_prod_out
    \/ call_prod
    \/ call_norm_out
    \/ call_all_out
    \/ call_all_all_out
    \/ call_any_out
    \/ call_any_all_out
    \/ call_mean_out

SpecReduce == Init /\ [][NextReduce]_vars

----------------------------------------------------------------------------
(* std_var_all_cpu: variance / standard deviation over every element.      *)
(* self is given by its elements in iteration order.                       *)

MaxLen == 3

VarVals == {0, 1, 2}

\* the non-empty element sequences; std_var_out takes this path only when
\* the iterator has elements
VarInputs == UNION {[1..n -> VarVals] : n \in 1..MaxLen}

Corrections == (0 - 1)..(MaxLen + 1)

RECURSIVE SeqSum(_)
SeqSum(q) == IF q = <<>> THEN 0 ELSE Head(q) + SeqSum(Tail(q))

Max(a, b) == IF a < b THEN b ELSE a

\* std::sqrt: NaN and infinity stay, a finite n / d becomes sqrt(n / d)
fsqrt(x) == IF x.k = "fin" THEN [x EXCEPT !.k = "sqrt"] ELSE x

\* self.mean().item<double>(): the sum over N, as the pair <<sum, N>>
all_mean(self) == <<SeqSum(self), Len(self)>>

\* ((x - mean)**2).sum() with mean = S / N: the sum of (N x - S)^2 over N^2
sum_dx2_of(self) ==
    LET mean == all_mean(self)
        S == mean[1]
        N == mean[2]
    IN  Fin(SeqSum([j \in 1..Len(self) |-> (N * self[j] - S) * (N * self[j] - S)]),
            N * N)

std_var_divisor_NoClamp(n, correction) == n - correction

\* std::max(int64_t{0}, self.numel() - correction)
std_var_divisor(n, correction) == Max(0, n - correction)

\* division of the finite value x by an integer of either sign
fdiv_signed(x, m) ==
    IF m < 0 THEN fdiv(Fin(0 - x.n, x.d), 0 - m) ELSE fdiv(x, m)

std_var_all_cpu(self, dtype, correction, take_sqrt) ==
    IF ~(dtype = "Double" \/ dtype = "Float")
    THEN [err |-> "InvalidDtype", result |-> NaN, divisor |-> 0]
    ELSE LET sum_dx2 == sum_dx2_of(self)
             divisor == std_var_divisor(Len(self), correction)
             var == fdiv_signed(sum_dx2, divisor)
         IN  [err |-> "none",
              result |-> IF take_sqrt THEN fsqrt(var) ELSE var,
              divisor |-> divisor]

\* std_var_out takes this path for floating dtypes other than Half and
\* BFloat16 only
call_std_var_all_cpu ==
    /\ pc = "idle"
    /\ \E self \in VarInputs, dtype \in {"Float", "Double"},
          correction \in Corrections, take_sqrt \in BOOLEAN :
        LET r == std_var_all_cpu(self, dtype, correction, take_sqrt)
        IN  /\ pc' = "done"
            /\ op' = "std_var_all_cpu"
            /\ args' = [self |-> self, dtype |-> dtype,
                        correction |-> correction, take_sqrt |-> take_sqrt]
            /\ ret' = [result |-> r.result, divisor |-> r.divisor]
            /\ err' = r.err
            /\ stub' = <<>>

NextVar == call_std_var_all_cpu

SpecVar == Init /\ [][NextVar]_vars

----------------------------------------------------------------------------
(* cummax / cummin on CPU.                                                 *)

ScanVals == {Fin(1, 1), Fin(2, 1), Fin(3, 1), NaN}

\* the tensor of rank 1 holding the integers of q
Vector(q) ==
    [shape |-> <<Len(q)>>,
     data |-> [i \in Indices(<<Len(q)>>) |-> Fin(q[i[1] + 1], 1)]]

\* scalars and vectors, and the vector of the documented example
ScanInputs ==
    TensorsOf(<<>>, ScanVals)
        \cup UNION {TensorsOf(<<n>>, ScanVals) : n \in 0..MaxLen}
        \cup {Vector(<<1, 3, 2, 5, 4>>)}

isnan_(x) == x.k = "nan"

\* a >= b on floating-point values: false when either is NaN
greater_equal(a, b) ==
    a.k = "fin" /\ b.k = "fin" /\ a.n * b.d >= b.n * a.d

less_equal(a, b) ==
    a.k = "fin" /\ b.k = "fin" /\ a.n * b.d <= b.n * a.d

cummax_Operation_Less(a, b) == less_equal(a, b)

\* the Operation template argument of cummax_helper_cpu
cummax_Operation(a, b) == greater_equal(a, b)

cummin_Operation_Greater(a, b) == greater_equal(a, b)

\* the Operation template argument of cummin_helper_cpu
cummin_Operation(a, b) == less_equal(a, b)

Operation(name, a, b) ==
    IF name = "cummax" THEN cummax_Operation(a, b) ELSE cummin_Operation(a, b)

cummax_cummin_update_NoNaN(name, curr_elem, out) ==
    ~isnan_(out) /\ Operation(name, curr_elem, out)

cummax_cummin_update_NoTies(name, curr_elem, out) ==
    isnan_(curr_elem)
        \/ (~isnan_(out) /\ Operation(name, curr_elem, out)
                /\ ~(curr_elem.n * out.d = out.n * curr_elem.d))

\* the condition under which the loop replaces out and idx
cummax_cummin_update(name, curr_elem, out) ==
    isnan_(curr_elem) \/ (~isnan_(out) /\ Operation(name, curr_elem, out))

RECURSIVE cummax_cummin_loop(_, _, _, _, _, _, _)
\* the loop of cummax_cummin_helper from iteration i on; self_data[i] is the
\* i-th element of the slice, whatever its stride
cummax_cummin_loop(name, self_data, i, out, idx, values_data, indices_data) ==
    IF i >= Len(self_data)
    THEN [values |-> values_data, indices |-> indices_data]
    ELSE LET curr_elem == self_data[i + 1]
             upd == cummax_cummin_update(name, curr_elem, out)
             out2 == IF upd THEN self_data[i + 1] ELSE out
             idx2 == IF upd THEN i ELSE idx
         IN  cummax_cummin_loop(name, self_data, i + 1, out2, idx2,
                                Append(values_data, out2),
                                Append(indices_data, idx2))

\* cummax_cummin_helper on one slice of self_dim_size >= 1 elements
cummax_cummin_helper(name, self_data) ==
    cummax_cummin_loop(name, self_data, 0, self_data[1], 0, <<>>, <<>>)

\* the elements of a tensor of rank 1, in order
Slice(self) == [j \in 1..self.shape[1] |-> self.data[<<j - 1>>]]

\* cummax_out / cummin_out after the dtype checks, into outputs resized to
\* self.sizes()
cummaxmin_out(name, self, dim) ==
    IF Len(self.shape) = 0
    THEN [shape |-> self.shape,
          values |-> Filled(self.shape, item(self)),
          indices |-> Filled(self.shape, 0)]
    ELSE IF numel(self.shape) # 0
    THEN LET r == cummax_cummin_helper(name, Slice(self))
         IN  [shape |-> self.shape,
              values |-> [i \in Indices(self.shape) |-> r.values[i[1] + 1]],
              indices |-> [i \in Indices(self.shape) |-> r.indices[i[1] + 1]]]
    ELSE [shape |-> self.shape, values |-> <<>>, indices |-> <<>>]

call_cummax ==
    /\ pc = "idle"
    /\ \E self \in ScanInputs :
        \E dim \in ValidDims(Len(self.shape)) :
        /\ pc' = "done"
        /\ op' = "cummax"
        /\ args' = [self |-> self, dim |-> dim]
        /\ ret' = cummaxmin_out("cummax", self, dim)
        /\ err' = "none"
        /\ stub' = <<>>

call_cummin ==
    /\ pc = "idle"
    /\ \E self \in ScanInputs :
        \E dim \in ValidDims(Len(self.shape)) :
        /\ pc' = "done"
        /\ op' = "cummin"
        /\ args' = [self |-> self, dim |-> dim]
        /\ ret' = cummaxmin_out("cummin", self, dim)
        /\ err' = "none"
        /\ stub' = <<>>

NextScan == call_cummax \/ call_cummin

SpecScan == Init /\ [][NextScan]_vars

----------------------------------------------------------------------------
(* diff: the n-th discrete difference along a dimension.                   *)

MaxOrder == 3

\* the orders diff is called with; a negative order runs no iteration
Orders == (0 - 1)..MaxOrder

DiffVals == {0, 1}

\* the inputs of dtype Long or Bool, and the vector of the documented example
DiffInputs(dtype) ==
    IF dtype = "Bool"
    THEN Tensors(BOOLEAN)
    ELSE Tensors(DiffVals)
             \cup {[shape |-> <<5>>,
                    data |-> [i \in Indices(<<5>>) |-> <<1, 2, 4, 7, 0>>[i[1] + 1]]]}

\* the value one of a dtype
One(dtype) == IF dtype = "Bool" THEN TRUE ELSE 1

\* Tensor::size(dim)
size(self, dim) == self.shape[maybe_wrap_dim(dim, Len(self.shape)) + 1]

\* at::narrow: length elements from start along dim
narrow(self, dim, start, length) ==
    LET d == maybe_wrap_dim(dim, Len(self.shape)) + 1
        sh == [self.shape EXCEPT ![d] = length]
    IN  [shape |-> sh,
         data |-> [i \in Indices(sh) |-> self.data[[i EXCEPT ![d] = i[d] + start]]]]

\* at::cat of two tensors along dim
cat2(a, b, dim) ==
    LET d == maybe_wrap_dim(dim, Len(a.shape)) + 1
        sh == [a.shape EXCEPT ![d] = a.shape[d] + b.shape[d]]
    IN  [shape |-> sh,
         data |-> [i \in Indices(sh) |->
                      IF i[d] < a.shape[d]
                      THEN a.data[i]
                      ELSE b.data[[i EXCEPT ![d] = i[d] - a.shape[d]]]]]

\* an optional<Tensor>: <<>> or <<tensor>>
has_value(opt) == Len(opt) > 0

\* the optional tensors diff is called with: none, one of the input's shape
\* with a single slice along dim, and a scalar (of the wrong rank)
OptionalTensors(self, dim, v) ==
    {<<>>, <<[shape |-> <<>>, data |-> Filled(<<>>, v)]>>}
        \cup (IF Len(self.shape) = 0 THEN {}
              ELSE LET d == maybe_wrap_dim(dim, Len(self.shape)) + 1
                       sh == [self.shape EXCEPT ![d] = 1]
                   IN  {<<[shape |-> sh, data |-> Filled(sh, v)]>>})

prepend_append_on_dim(self, prepend, append, dim) ==
    IF ~has_value(prepend) /\ has_value(append)
    THEN cat2(self, append[1], dim)
    ELSE IF has_value(prepend) /\ ~has_value(append)
    THEN cat2(prepend[1], self, dim)
    ELSE cat2(cat2(prepend[1], self, dim), append[1], dim)

\* TRUE when every TORCH_CHECK of diff_check_compatible_shape passes
diff_check_compatible_shape(self, other, dim) ==
    has_value(other) =>
        LET wrapped_dim == maybe_wrap_dim(dim, Len(self.shape))
        IN  /\ Len(other[1].shape) = Len(self.shape)
            /\ \A i \in 0..(Len(other[1].shape) - 1) :
                  other[1].shape[i + 1] = self.shape[i + 1] \/ i = wrapped_dim

\* TRUE when every TORCH_CHECK of diff_check passes
diff_check(self, n, dim, prepend, append) ==
    /\ Len(self.shape) >= 1
    /\ diff_check_compatible_shape(self, prepend, dim)
    /\ diff_check_compatible_shape(self, append, dim)

diff_step_Reversed(result, is_kBool, dim, out_len) ==
    LET hi == narrow(result, dim, 1, out_len)
        lo == narrow(result, dim, 0, out_len)
    IN  [shape |-> hi.shape,
         data |-> [i \in Indices(hi.shape) |->
                      IF is_kBool
                      THEN hi.data[i] # lo.data[i]
                      ELSE lo.data[i] - hi.data[i]]]

\* one iteration of the loop of diff_helper: logical_xor or subtraction of
\* the two narrowed views
diff_step(result, is_kBool, dim, out_len) ==
    LET hi == narrow(result, dim, 1, out_len)
        lo == narrow(result, dim, 0, out_len)
    IN  [shape |-> hi.shape,
         data |-> [i \in Indices(hi.shape) |->
                      IF is_kBool
                      THEN hi.data[i] # lo.data[i]
                      ELSE hi.data[i] - lo.data[i]]]

RECURSIVE diff_loop(_, _, _, _, _)
\* the loop of diff_helper with n iterations left
diff_loop(result, is_kBool, dim, n, out_len) ==
    IF n <= 0 THEN result
    ELSE diff_loop(diff_step(result, is_kBool, dim, out_len),
                   is_kBool, dim, n - 1, out_len - 1)

diff_helper(self, dtype, n, dim) ==
    IF n = 0
    THEN self
    ELSE LET out_len == size(self, dim) - 1
             is_kBool == (dtype = "Bool")
             n2 == IF n >= size(self, dim) THEN size(self, dim) ELSE n
         IN  diff_loop(self, is_kBool, dim, n2, out_len)

diff(self, dtype, n, dim, prepend, append) ==
    IF ~diff_check(self, n, dim, prepend, append)
    THEN [err |-> "ShapeMismatch", result |-> [shape |-> <<>>, data |-> <<>>]]
    ELSE IF (~has_value(prepend) /\ ~has_value(append)) \/ n = 0
    THEN [err |-> "none", result |-> diff_helper(self, dtype, n, dim)]
    ELSE LET a == prepend_append_on_dim(self, prepend, append, dim)
         IN  [err |-> "none", result |-> diff_helper(a, dtype, n, dim)]

call_diff ==
    /\ pc = "idle"
    /\ \E dtype \in {"Long", "Bool"}, n \in Orders :
        \E self \in DiffInputs(dtype) :
        \E dim \in ValidDims(Len(self.shape)) :
        \E prepend \in OptionalTensors(self, dim, One(dtype)),
           append \in OptionalTensors(self, dim, One(dtype)) :
        LET r == diff(self, dtype, n, dim, prepend, append)
        IN  /\ pc' = "done"
            /\ op' = "diff"
            /\ args' = [self |-> self, dtype |-> dtype, n |-> n, dim |-> dim,
                        prepend |-> prepend, append |-> append]
            /\ ret' = [result |-> r.result]
            /\ err' = r.err
            /\ stub' = <<>>

NextDiff == call_diff

SpecDiff == Init /\ [][NextDiff]_vars

----------------------------------------------------------------------------
(* cumsum, and diff applied to its result.                                 *)

CumVals == {0 - 1, 2}

\* cumsum_stub: the running sum along the (wrapped) dimension dim
cumsum_stub(self, dim) ==
    [i \in Indices(self.shape) |->
        SumOver({j \in Indices(self.shape) :
                    /\ j[dim + 1] <= i[dim + 1]
                    /\ \A k \in 1..Len(self.shape) :
                          k # dim + 1 => j[k] = i[k]},
                self.data)]

cumsum_stub_Exclusive(self, dim) ==
    [i \in Indices(self.shape) |->
        SumOver({j \in Indices(self.shape) :
                    /\ j[dim + 1] < i[dim + 1]
                    /\ \A k \in 1..Len(self.shape) :
                          k # dim + 1 => j[k] = i[k]},
                self.data)]

cumsum_out_ZeroWhenNonEmpty(self, dim) ==
    IF Len(self.shape) = 0
    THEN [shape |-> self.shape, data |-> Filled(self.shape, item(self)),
          stub |-> <<>>]
    ELSE [shape |-> self.shape, data |-> Filled(self.shape, 0), stub |-> <<>>]

\* impl_func_cum_ops with the cumsum stub, into a result of self's sizes
cumsum_out(self, dim) ==
    IF Len(self.shape) = 0
    THEN [shape |-> self.shape, data |-> Filled(self.shape, item(self)),
          stub |-> <<>>]
    ELSE IF numel(self.shape) = 0
    THEN [shape |-> self.shape, data |-> Filled(self.shape, 0), stub |-> <<>>]
    ELSE LET d == maybe_wrap_dim(dim, Len(self.shape))
         IN  [shape |-> self.shape, data |-> cumsum_stub(self, d),
              stub |-> <<"cumsum_stub">>]

\* cumsum(self, dim) of an integer tensor with no dtype given
call_cumsum ==
    /\ pc = "idle"
    /\ \E self \in Tensors(CumVals), self_dtype \in {"Char", "Long"} :
        \E dim \in ValidDims(Len(self.shape)) :
        LET r == cumsum_out(self, dim)
        IN  /\ pc' = "cumsum"
            /\ op' = "cumsum"
            /\ args' = [self |-> self, self_dtype |-> self_dtype, dim |-> dim]
            /\ ret' = [result |-> [shape |-> r.shape, data |-> r.data],
                       dtype |-> cum_ops_dtype(self_dtype, nullopt, undefined)]
            /\ err' = "none"
            /\ stub' = r.stub

\* diff(result, 1, dim) on the tensor cumsum returned
call_diff_of_cumsum ==
    /\ pc = "cumsum"
    /\ LET r == diff(ret.result, ret.dtype, 1, args.dim, <<>>, <<>>)
       IN  /\ pc' = "done"
           /\ op' = "diff_of_cumsum"
           /\ args' = args
           /\ ret' = [result |-> r.result, dtype |-> ret.dtype]
           /\ err' = r.err
           /\ stub' = stub

NextCum == call_cumsum \/ call_diff_of_cumsum

SpecCum == Init /\ [][NextCum]_vars

----------------------------------------------------------------------------
(* argmax, argmin and aminmax: the meta function, then the impl function.  *)

\* the optional dims an operator is called with: <<>> is nullopt
OptionalDims(r) == {<<>>} \cup {<<d>> : d \in ValidDims(r)}

\* native::zero_numel_check_dims: TRUE when its check passes
zero_numel_check_dims(self, dim) ==
    IF Len(self.shape) = 0
    THEN dim = 0 \/ dim = 0 - 1
    ELSE size(self, dim) # 0

check_argmax_argmin_NoNumelCheck(self, dim) ==
    IF has_value(dim)
    THEN LET dim_ == maybe_wrap_dim(dim[1], Len(self.shape))
         IN  zero_numel_check_dims(self, dim_)
    ELSE TRUE

\* TRUE when the check of check_argmax_argmin passes
check_argmax_argmin(self, dim) ==
    IF has_value(dim)
    THEN LET dim_ == maybe_wrap_dim(dim[1], Len(self.shape))
         IN  zero_numel_check_dims(self, dim_)
    ELSE numel(self.shape) # 0

\* resize_reduction: the output shape for the optional dim
resize_reduction(self, dim, keepdim) ==
    get_reduction_shape(self.shape, make_dim_mask(dim, Len(self.shape)), keepdim)

RECURSIVE Linear(_, _)
\* the row-major position of index i in a tensor of the given shape
Linear(i, shape) ==
    IF Len(i) = 0 THEN 0
    ELSE Linear(SubSeq(i, 1, Len(i) - 1), SubSeq(shape, 1, Len(shape) - 1))
             * shape[Len(shape)] + i[Len(i)]

\* self.reshape({-1})
reshape_flat(self) ==
    LET n == numel(self.shape)
    IN  [shape |-> <<n>>,
         data |-> [k \in Indices(<<n>>) |->
                      self.data[CHOOSE i \in Indices(self.shape) :
                                    Linear(i, self.shape) = k[1]]]]

\* the position along the reduced dimension d of index i
PositionAlong(i, d) == IF Len(i) = 0 THEN 0 ELSE i[d + 1]

\* argmax_stub / argmin_stub on the elements at S: the first position along
\* d that holds the extremum
arg_kernel(stubname, S, data, d) ==
    LET best(i) == \A j \in S :
                      IF stubname = "argmax_stub"
                      THEN data[j] <= data[i]
                      ELSE data[i] <= data[j]
        bests == {PositionAlong(i, d) : i \in {j \in S : best(j)}}
    IN  CHOOSE p \in bests : \A q \in bests : p <= q

\* the output a kernel has not written
Unwritten(shape) == Filled(shape, "unwritten")

\* argmax_argmin_impl from make_reduction on: the iterator and the stub
argmax_argmin_reduce(stubname, self, dim, keepdim) ==
    LET out_shape == resize_reduction(self, dim, keepdim)
        _dim == IF has_value(dim)
                THEN maybe_wrap_dim(dim[1], Len(self.shape)) ELSE 0
        in == IF has_value(dim) THEN self ELSE reshape_flat(self)
        dims == IF has_value(dim) THEN <<_dim>> ELSE <<>>
        keep == IF has_value(dim) THEN keepdim ELSE FALSE
        iter == make_reduction(in, dims, keep)
    IN  IF iter.numel # 0
        THEN [shape |-> out_shape,
              data |-> [o \in Indices(out_shape) |->
                           arg_kernel(stubname,
                               IF has_value(dim)
                               THEN Reduced(in, iter.mask, keep, o)
                               ELSE Indices(in.shape),
                               in.data, _dim)],
              fill |-> <<>>, iter |-> TRUE, stub |-> <<stubname>>]
        ELSE [shape |-> out_shape, data |-> Unwritten(out_shape),
              fill |-> <<>>, iter |-> TRUE, stub |-> <<>>]

argmax_argmin_impl_NoShortcut(stubname, self, dim, keepdim, stale) ==
    argmax_argmin_reduce(stubname, self, dim, keepdim)

\* argmax_argmin_impl; stale is what sizes[_dim] reads for an input of rank
\* 0, whose sizes are empty
argmax_argmin_impl(stubname, self, dim, keepdim, stale) ==
    LET out_shape == resize_reduction(self, dim, keepdim)
        _dim == IF has_value(dim)
                THEN maybe_wrap_dim(dim[1], Len(self.shape)) ELSE 0
        sizes_dim == IF Len(self.shape) = 0 THEN stale ELSE self.shape[_dim + 1]
    IN  IF has_value(dim) /\ sizes_dim = 1
        THEN [shape |-> out_shape, data |-> Filled(out_shape, 0),
              fill |-> <<0>>, iter |-> FALSE, stub |-> <<>>]
        ELSE argmax_argmin_reduce(stubname, self, dim, keepdim)

\* the shape TORCH_META_FUNC(aminmax) gives both outputs
aminmax_meta_shape(self, dim_opt, keepdim) ==
    IF has_value(dim_opt)
    THEN LET dim == maybe_wrap_dim(dim_opt[1], Len(self.shape))
         IN  get_reduction_shape(self.shape, {dim}, keepdim)
    ELSE IF keepdim THEN [k \in 1..Len(self.shape) |-> 1] ELSE <<>>

\* TRUE when the checks of TORCH_META_FUNC(aminmax) pass
aminmax_meta_check(self, dim_opt) ==
    IF has_value(dim_opt)
    THEN zero_numel_check_dims(self, maybe_wrap_dim(dim_opt[1], Len(self.shape)))
    ELSE numel(self.shape) > 0

\* the least (greatest) of the elements at S
ExtremeOver(S, data, least) ==
    CHOOSE v \in {data[i] : i \in S} :
        \A i \in S : IF least THEN v <= data[i] ELSE data[i] <= v

\* TORCH_IMPL_FUNC(aminmax_out): aminmax_stub along dim, or
\* aminmax_allreduce_stub over every element
aminmax_out(self, dim_opt, keepdim) ==
    LET shape == aminmax_meta_shape(self, dim_opt, keepdim)
        S(o) == IF has_value(dim_opt)
                THEN Reduced(self, {maybe_wrap_dim(dim_opt[1], Len(self.shape))},
                             keepdim, o)
                ELSE Indices(self.shape)
    IN  [shape |-> shape,
         data |-> [o \in Indices(shape) |-> ExtremeOver(S(o), self.data, TRUE)],
         max |-> [o \in Indices(shape) |-> ExtremeOver(S(o), self.data, FALSE)],
         stub |-> IF has_value(dim_opt) THEN <<"aminmax_stub">>
                  ELSE <<"aminmax_allreduce_stub">>]

\* the state a meta function leaves when its check fails: no output is set
NoOutput ==
    [output_set |-> FALSE, shape |-> <<>>, data |-> <<>>, max |-> <<>>,
     fill |-> <<>>, iter |-> FALSE]

ArgArgs(self, dim, keepdim) == [self |-> self, dim |-> dim, keepdim |-> keepdim]

\* what sizes[_dim] can read: the size for rank >= 1, any value for rank 0
StaleSizes(self, dim) ==
    IF has_value(dim) /\ Len(self.shape) = 0 THEN {0, 1} ELSE {0}

call_argmax ==
    /\ pc = "idle"
    /\ \E self \in Tensors(ReduceVals), keepdim \in BOOLEAN :
        \E dim \in OptionalDims(Len(self.shape)) :
        \E stale \in StaleSizes(self, dim) :
        /\ pc' = "done"
        /\ op' = "argmax"
        /\ args' = ArgArgs(self, dim, keepdim)
        /\ IF ~check_argmax_argmin(self, dim)
           THEN /\ ret' = NoOutput
                /\ err' = "IndexError"
                /\ stub' = <<>>
           ELSE LET r == argmax_argmin_impl("argmax_stub", self, dim, keepdim, stale)
                IN  /\ ret' = [output_set |-> TRUE, shape |-> r.shape,
                               data |-> r.data, max |-> <<>>,
                               fill |-> r.fill, iter |-> r.iter]
                    /\ err' = "none"
                    /\ stub' = r.stub

call_argmin ==
    /\ pc = "idle"
    /\ \E self \in Tensors(ReduceVals), keepdim \in BOOLEAN :
        \E dim \in OptionalDims(Len(self.shape)) :
        \E stale \in StaleSizes(self, dim) :
        /\ pc' = "done"
        /\ op' = "argmin"
        /\ args' = ArgArgs(self, dim, keepdim)
        /\ IF ~check_argmax_argmin(self, dim)
           THEN /\ ret' = NoOutput
                /\ err' = "IndexError"
                /\ stub' = <<>>
           ELSE LET r == argmax_argmin_impl("argmin_stub", self, dim, keepdim, stale)
                IN  /\ ret' = [output_set |-> TRUE, shape |-> r.shape,
                               data |-> r.data, max |-> <<>>,
                               fill |-> r.fill, iter |-> r.iter]
                    /\ err' = "none"
                    /\ stub' = r.stub

call_aminmax ==
    /\ pc = "idle"
    /\ \E self \in Tensors(ReduceVals), keepdim \in BOOLEAN :
        \E dim \in OptionalDims(Len(self.shape)) :
        /\ pc' = "done"
        /\ op' = "aminmax"
        /\ args' = ArgArgs(self, dim, keepdim)
        /\ IF ~aminmax_meta_check(self, dim)
           THEN /\ ret' = NoOutput
                /\ err' = IF has_value(dim) THEN "IndexError" ELSE "Error"
                /\ stub' = <<>>
           ELSE LET r == aminmax_out(self, dim, keepdim)
                IN  /\ ret' = [output_set |-> TRUE, shape |-> r.shape,
                               data |-> r.data, max |-> r.max,
                               fill |-> <<>>, iter |-> FALSE]
                    /\ err' = "none"
                    /\ stub' = r.stub

NextArg == call_argmax \/ call_argmin \/ call_aminmax

SpecArg == Init /\ [][NextArg]_vars

----------------------------------------------------------------------------
(* The out-variants: cummax_out, cummin_out, logcumsumexp_out, diff_out.   *)
(* The caller's output view carries its options, its shape and its data;   *)
(* the inputs are strided CPU tensors.                                     *)

\* a caller's output view with the given options, holding one old element
OutView(dtype, device, layout) ==
    [dtype |-> dtype, device |-> device, layout |-> layout,
     shape |-> <<1>>, data |-> Filled(<<1>>, "old")]

\* the output views a caller passes for an input of the given dtype: one
\* of the input's options, and ones differing in dtype, device or layout
OutViews(dtype) ==
    {OutView(dtype, "cpu", "Strided"),
     OutView(dtype, "cuda", "Strided"),
     OutView(dtype, "cpu", "Sparse")}
        \cup {OutView(d, "cpu", "Strided") : d \in {"Bool", "Long", "Float"} \ {dtype}}

\* the options of an input tensor of the given dtype
InputOptions(dtype) == [dtype |-> dtype, device |-> "cpu", layout |-> "Strided"]

\* TRUE when every check of check_scalar_type_device_layout_equal passes
check_scalar_type_device_layout_equal(out, self) ==
    /\ out.dtype = self.dtype
    /\ out.device = self.device
    /\ out.layout = self.layout

\* at::native::resize_output: the view takes the shape; its elements are
\* kept only when the shape does not change
resize_output(out, shape) ==
    IF out.shape = shape THEN out
    ELSE [out EXCEPT !.shape = shape, !.data = Unwritten(shape)]

\* the conversion of an element on the way into an output of dtype to
ConvertTo(v, from, to) ==
    IF from = to THEN v
    ELSE IF from = "Bool" /\ to = "Long" THEN (IF v THEN 1 ELSE 0)
    ELSE IF from = "Bool" /\ to = "Float" THEN Fin(IF v THEN 1 ELSE 0, 1)
    ELSE IF from = "Long" /\ to = "Float" THEN Fin(v, 1)
    ELSE IF from = "Long" /\ to = "Bool" THEN v # 0
    ELSE v

\* c10::canCast
canCast(from, to) ==
    /\ ~(isFloatingType(from) /\ ~isFloatingType(to))
    /\ ~(from # "Bool" /\ to = "Bool")

cummaxmin_out_views_ResizeFirst(name, self, dim, values, indices) ==
    LET opts == InputOptions("Float")
        r == cummaxmin_out(name, self, dim)
    IN  IF ~check_scalar_type_device_layout_equal(values, opts)
            \/ ~check_scalar_type_device_layout_equal(
                   indices, [opts EXCEPT !.dtype = "Long"])
        THEN [err |-> "OptionsMismatch",
              values |-> resize_output(values, self.shape),
              indices |-> resize_output(indices, self.shape)]
        ELSE [err |-> "none",
              values |-> [values EXCEPT !.shape = r.shape, !.data = r.values],
              indices |-> [indices EXCEPT !.shape = r.shape, !.data = r.indices]]

\* cummax_out / cummin_out on the caller's views: the two checks, then the
\* resizes and the scan
cummaxmin_out_views(name, self, dim, values, indices) ==
    LET opts == InputOptions("Float")
        r == cummaxmin_out(name, self, dim)
    IN  IF ~check_scalar_type_device_layout_equal(values, opts)
            \/ ~check_scalar_type_device_layout_equal(
                   indices, [opts EXCEPT !.dtype = "Long"])
        THEN [err |-> "OptionsMismatch", values |-> values, indices |-> indices]
        ELSE [err |-> "none",
              values |-> [values EXCEPT !.shape = r.shape, !.data = r.values],
              indices |-> [indices EXCEPT !.shape = r.shape, !.data = r.indices]]

\* logcumsumexp_stub: element i is log(sum of exp over the elements 0..i)
logcumsumexp_stub(self) ==
    IF Len(self.shape) = 0
    THEN Filled(self.shape, [k |-> "logsumexp", terms |-> <<item(self)>>])
    ELSE [i \in Indices(self.shape) |->
             [k |-> "logsumexp", terms |-> SubSeq(Slice(self), 1, i[1] + 1)]]

\* logcumsumexp_out on the caller's view
logcumsumexp_out(self, dim, result) ==
    IF ~check_scalar_type_device_layout_equal(result, InputOptions("Float"))
    THEN [err |-> "OptionsMismatch", result |-> result]
    ELSE [err |-> "none",
          result |-> [result EXCEPT !.shape = self.shape,
                                    !.data = logcumsumexp_stub(self)]]

\* TRUE when the checks of at::narrow pass
narrow_check(self, dim, start, length) ==
    LET cur_size == size(self, dim)
    IN  /\ length >= 0
        /\ start = cur_size \/ (cur_size > 0 /\ start < cur_size)
        /\ start <= cur_size - length

\* at::sub_out / at::logical_xor_out into the caller's view: the iterator
\* rejects a foreign device or layout and, for sub_out, a result dtype the
\* difference cannot be cast to, before it resizes or writes the output
binary_out(result, a, dtype) ==
    IF result.device # "cpu" \/ result.layout # "Strided"
    THEN [err |-> "OptionsMismatch", result |-> result]
    ELSE IF dtype # "Bool" /\ ~canCast(dtype, result.dtype)
    THEN [err |-> "CannotCast", result |-> result]
    ELSE [err |-> "none",
          result |-> [result EXCEPT
                         !.shape = a.shape,
                         !.data = [i \in Indices(a.shape) |->
                                      ConvertTo(a.data[i], dtype, result.dtype)]]]

diff_out_helper(self, dtype, n, dim, result) ==
    IF n = 0
    THEN LET resized == resize_output(result, self.shape)
         IN  IF ~check_scalar_type_device_layout_equal(resized, InputOptions(dtype))
             THEN [err |-> "OptionsMismatch", result |-> resized]
             ELSE [err |-> "none",
                   result |-> [resized EXCEPT !.data = self.data]]
    ELSE LET n2 == IF n >= size(self, dim) THEN size(self, dim) ELSE n
             out_len == size(self, dim) - n2
             prev_result == IF n2 > 1 THEN diff_helper(self, dtype, n2 - 1, dim)
                            ELSE self
         IN  IF ~narrow_check(prev_result, dim, 1, out_len)
                 \/ ~narrow_check(prev_result, dim, 0, out_len)
             THEN [err |-> "IndexError", result |-> result]
             ELSE binary_out(result,
                             diff_step(prev_result, dtype = "Bool", dim, out_len),
                             dtype)

diff_out_NoPrepend(self, dtype, n, dim, prepend, append, result) ==
    IF ~diff_check(self, n, dim, prepend, append)
    THEN [err |-> "ShapeMismatch", result |-> result]
    ELSE diff_out_helper(self, dtype, n, dim, result)

diff_out(self, dtype, n, dim, prepend, append, result) ==
    IF ~diff_check(self, n, dim, prepend, append)
    THEN [err |-> "ShapeMismatch", result |-> result]
    ELSE IF (~has_value(prepend) /\ ~has_value(append)) \/ n = 0
    THEN diff_out_helper(self, dtype, n, dim, result)
    ELSE LET a == prepend_append_on_dim(self, prepend, append, dim)
         IN  diff_out_helper(a, dtype, n, dim, result)

call_cummax_out ==
    /\ pc = "idle"
    /\ \E self \in ScanInputs, values \in OutViews("Float"),
          indices \in OutViews("Long") :
        \E dim \in ValidDims(Len(self.shape)) :
        LET r == cummaxmin_out_views("cummax", self, dim, values, indices)
        IN  /\ pc' = "done"
            /\ op' = "cummax_out"
            /\ args' = [self |-> self, dtype |-> "Float", dim |-> dim,
                        out |-> <<values, indices>>]
            /\ ret' = [out |-> <<r.values, r.indices>>]
            /\ err' = r.err
            /\ stub' = <<>>

call_cummin_out ==
    /\ pc = "idle"
    /\ \E self \in ScanInputs, values \in OutViews("Float"),
          indices \in OutViews("Long") :
        \E dim \in ValidDims(Len(self.shape)) :
        LET r == cummaxmin_out_views("cummin", self, dim, values, indices)
        IN  /\ pc' = "done"
            /\ op' = "cummin_out"
            /\ args' = [self |-> self, dtype |-> "Float", dim |-> dim,
                        out |-> <<values, indices>>]
            /\ ret' = [out |-> <<r.values, r.indices>>]
            /\ err' = r.err
            /\ stub' = <<>>

call_logcumsumexp_out ==
    /\ pc = "idle"
    /\ \E self \in ScanInputs, result \in OutViews("Float") :
        \E dim \in ValidDims(Len(self.shape)) :
        LET r == logcumsumexp_out(self, dim, result)
        IN  /\ pc' = "done"
            /\ op' = "logcumsumexp_out"
            /\ args' = [self |-> self, dtype |-> "Float", dim |-> dim,
                        out |-> <<result>>]
            /\ ret' = [out |-> <<r.result>>]
            /\ err' = r.err
            /\ stub' = IF r.err = "none" THEN <<"logcumsumexp_stub">> ELSE <<>>

\* the inputs diff_out is called with: scalars and vectors of any contents,
\* and matrices of every shape holding one value throughout
DiffOutInputs(dtype) ==
    {t \in DiffInputs(dtype) :
        Len(t.shape) <= 1 \/ \A i, j \in DOMAIN t.data : t.data[i] = t.data[j]}

call_diff_out ==
    /\ pc = "idle"
    /\ \E dtype \in {"Long", "Bool"}, n \in Orders :
        \E self \in DiffOutInputs(dtype), result \in OutViews(dtype) :
        \E dim \in ValidDims(Len(self.shape)) :
        \E prepend \in OptionalTensors(self, dim, One(dtype)),
           append \in OptionalTensors(self, dim, One(dtype)) :
        LET r == diff_out(self, dtype, n, dim, prepend, append, result)
        IN  /\ pc' = "done"
            /\ op' = "diff_out"
            /\ args' = [self |-> self, dtype |-> dtype, n |-> n, dim |-> dim,
                        prepend |-> prepend, append |-> append,
                        out |-> <<result>>]
            /\ ret' = [out |-> <<r.result>>]
            /\ err' = r.err
            /\ stub' = <<>>

NextOut ==
    call_cummax_out \/ call_cummin_out \/ call_logcumsumexp_out \/ call_diff_out

SpecOut == Init /\ [][NextOut]_vars

----------------------------------------------------------------------------
(* gradient: pre_check_gradient, then one finite-difference result per     *)
(* dimension.  A tensor is given by its dtype, device and shape; a         *)
(* coordinate array by its device and rank; a spacing list by its length.  *)

\* sizes reach edge_order + 1 for both edge orders
GradShapes == UNION {[1..r -> 1..(MaxSize + 1)] : r \in Ranks}

GradInputs ==
    {[dtype |-> t, device |-> "cpu", shape |-> sh] :
        t \in {"Float", "Byte"}, sh \in GradShapes}

EdgeOrders == 0..3

\* the IntArrayRef dim arguments: in and out of range, with repetitions
GradDimLists == UNION {[1..n -> (0 - 2)..1] : n \in 0..2}

\* the optional<int64_t> dim arguments
GradOptionalDims == {<<>>} \cup {<<d>> : d \in (0 - 2)..1}

CoordinateArrays == {[device |-> v, rank |-> r] : v \in {"cpu", "cuda"}, r \in {1, 2}}

CoordinateLists == UNION {[1..n -> CoordinateArrays] : n \in 0..2}

SpacingSizes == 0..2

\* what a read past the end of a list can do: abort the call, or yield a
\* stray element (of rank 1 or not, for a tensor list)
StrayReads == {"crash", "rank1", "rank2"}

\* dim_list_to_bitset: "none", or the error it raises
dim_list_to_bitset(dims, ndims) ==
    IF \E k \in 1..Len(dims) : dims[k] \notin ValidDims(ndims)
    THEN "IndexError"
    ELSE IF \E j, k \in 1..Len(dims) :
               j # k /\ maybe_wrap_dim(dims[j], ndims) = maybe_wrap_dim(dims[k], ndims)
    THEN "DuplicateDim"
    ELSE "none"

\* the loop over the given dims: self.size(dim[i]) >= edge_order + 1
pre_check_sizes_AllDims(self, dims, edge_order) ==
    IF \E k \in 1..Len(self.shape) : self.shape[k] < edge_order + 1
    THEN "DimensionSize"
    ELSE IF Len(dims) > 0 /\ Len(self.shape) = 0 THEN "IndexError"
    ELSE "none"

pre_check_sizes(self, dims, edge_order) ==
    IF Len(dims) > 0 /\ Len(self.shape) = 0
    THEN "IndexError"
    ELSE IF \E k \in 1..Len(dims) : size(self, dims[k]) < edge_order + 1
    THEN "DimensionSize"
    ELSE "none"

\* pre_check_gradient: "none", or the first check that fails; spacing_size
\* and dim are optionals (<<>> is nullopt)
pre_check_gradient(self, spacing_size, dim, edge_order) ==
    IF self.dtype = "Byte" THEN "UnsupportedDtype"
    ELSE IF has_value(spacing_size) /\ ~has_value(dim)
            /\ ~(spacing_size[1] = 1 \/ spacing_size[1] = Len(self.shape))
    THEN "SpacingLength"
    ELSE IF has_value(spacing_size) /\ has_value(dim)
            /\ spacing_size[1] # Len(dim[1])
    THEN "SpacingLength"
    ELSE IF ~(edge_order = 1 \/ edge_order = 2) THEN "EdgeOrder"
    ELSE IF has_value(dim)
    THEN IF dim_list_to_bitset(dim[1], Len(self.shape)) # "none"
         THEN dim_list_to_bitset(dim[1], Len(self.shape))
         ELSE pre_check_sizes(self, dim[1], edge_order)
    ELSE IF \E k \in 1..Len(self.shape) : self.shape[k] < edge_order + 1
    THEN "DimensionSize"
    ELSE "none"

\* the gradient was not computed: the error, and the results computed
\* before it
GradFailed(kind, computed) == [err |-> kind, computed |-> computed]

RECURSIVE gradient_helper_loop(_, _, _, _, _, _)
\* the loop of gradient_helper from iteration i (1-based) on; computed holds
\* the directions whose result is in the list already
gradient_helper_loop(self, coordinates, dim, i, computed, stray) ==
    IF i > Len(dim) THEN [err |-> "none", computed |-> computed]
    ELSE IF i > Len(coordinates) /\ stray = "crash"
    THEN GradFailed("OutOfBounds", computed)
    ELSE LET rank == IF i <= Len(coordinates) THEN coordinates[i].rank
                     ELSE IF stray = "rank1" THEN 1 ELSE 2
         IN  IF rank # 1 THEN GradFailed("CoordinateRank", computed)
             ELSE gradient_helper_loop(
                      self, coordinates, dim, i + 1,
                      Append(computed, maybe_wrap_dim(dim[i], Len(self.shape))),
                      stray)

gradient_helper_RankFirst(self, coordinates, dim, edge_order, stray) ==
    IF \E i \in 1..Len(coordinates) : coordinates[i].device # self.device
    THEN GradFailed("DeviceMismatch", <<>>)
    ELSE IF \E i \in 1..Len(coordinates) : coordinates[i].rank # 1
    THEN GradFailed("CoordinateRank", <<>>)
    ELSE gradient_helper_loop(self, coordinates, dim, 1, <<>>, stray)

gradient_helper(self, coordinates, dim, edge_order, stray) ==
    IF \E i \in 1..Len(coordinates) : coordinates[i].device # self.device
    THEN GradFailed("DeviceMismatch", <<>>)
    ELSE gradient_helper_loop(self, coordinates, dim, 1, <<>>, stray)

RECURSIVE gradient_helper_float_loop(_, _, _, _, _, _)
gradient_helper_float_loop(self, spacing, dim, i, computed, stray) ==
    IF i > Len(dim) THEN [err |-> "none", computed |-> computed]
    ELSE IF i > spacing /\ stray = "crash"
    THEN GradFailed("OutOfBounds", computed)
    ELSE gradient_helper_float_loop(
             self, spacing, dim, i + 1,
             Append(computed, maybe_wrap_dim(dim[i], Len(self.shape))),
             stray)

\* gradient_helper_float with a spacing list of the given length
gradient_helper_float(self, spacing, dim, edge_order, stray) ==
    gradient_helper_float_loop(self, spacing, dim, 1, <<>>, stray)

gradient_dim_preprocess_FirstOnly(self, dim) ==
    IF has_value(dim) THEN <<dim[1]>>
    ELSE [k \in 1..(IF Len(self.shape) = 0 THEN 0 ELSE 1) |-> k - 1]

gradient_dim_preprocess(self, dim) ==
    IF has_value(dim) THEN <<dim[1]>>
    ELSE [k \in 1..Len(self.shape) |-> k - 1]

\* an optional<int64_t> dim as the optional list pre_check_gradient takes
OptionalList(self, dim) ==
    IF has_value(dim) THEN <<gradient_dim_preprocess(self, dim)>> ELSE <<>>

\* a gradient overload: the pre-check, then the helper
GradResult(check, helped) ==
    IF check # "none"
    THEN [err |-> check, computed |-> <<>>, returned |-> FALSE]
    ELSE [err |-> helped.err, computed |-> helped.computed,
          returned |-> helped.err = "none"]

GradArgs(overload, self, spacing, dim, edge_order) ==
    [overload |-> overload, self |-> self, spacing |-> spacing, dim |-> dim,
     edge_order |-> edge_order]

\* gradient(coordinates, IntArrayRef dim, edge_order)
call_gradient_coordinates_dims ==
    /\ pc = "idle"
    /\ \E self \in GradInputs, edge_order \in EdgeOrders, stray \in StrayReads :
        \E coordinates \in CoordinateLists, dim \in GradDimLists :
        LET check == pre_check_gradient(self, <<Len(coordinates)>>, <<dim>>, edge_order)
            r == GradResult(check,
                     IF check # "none" THEN GradFailed(check, <<>>)
                     ELSE gradient_helper(self, coordinates, dim, edge_order, stray))
        IN  /\ pc' = "done"
            /\ op' = "gradient"
            /\ args' = GradArgs("gradient_coordinates_dims", self, coordinates, dim, edge_order)
            /\ ret' = [computed |-> r.computed, returned |-> r.returned]
            /\ err' = r.err
            /\ stub' = <<>>

\* gradient(coordinates, optional dim, edge_order)
call_gradient_coordinates_dim ==
    /\ pc = "idle"
    /\ \E self \in GradInputs, edge_order \in EdgeOrders, stray \in StrayReads :
        \E coordinates \in CoordinateLists, dim \in GradOptionalDims :
        LET check == pre_check_gradient(self, <<Len(coordinates)>>, OptionalList(self, dim), edge_order)
            r == GradResult(check,
                     IF check # "none" THEN GradFailed(check, <<>>)
                     ELSE gradient_helper(self, coordinates, gradient_dim_preprocess(self, dim), edge_order, stray))
        IN  /\ pc' = "done"
            /\ op' = "gradient"
            /\ args' = GradArgs("gradient_coordinates_dim", self, coordinates, dim, edge_order)
            /\ ret' = [computed |-> r.computed, returned |-> r.returned]
            /\ err' = r.err
            /\ stub' = <<>>

\* gradient(spacing, IntArrayRef dim, edge_order)
call_gradient_spacing_dims ==
    /\ pc = "idle"
    /\ \E self \in GradInputs, edge_order \in EdgeOrders, stray \in StrayReads :
        \E spacing \in SpacingSizes, dim \in GradDimLists :
        LET check == pre_check_gradient(self, <<spacing>>, <<dim>>, edge_order)
            r == GradResult(check,
                     IF check # "none" THEN GradFailed(check, <<>>)
                     ELSE gradient_helper_float(self, spacing, dim, edge_order, stray))
        IN  /\ pc' = "done"
            /\ op' = "gradient"
            /\ args' = GradArgs("gradient_spacing_dims", self, spacing, dim, edge_order)
            /\ ret' = [computed |-> r.computed, returned |-> r.returned]
            /\ err' = r.err
            /\ stub' = <<>>

\* gradient(spacing, optional dim, edge_order)
call_gradient_spacing_dim ==
    /\ pc = "idle"
    /\ \E self \in GradInputs, edge_order \in EdgeOrders, stray \in StrayReads :
        \E spacing \in SpacingSizes, dim \in GradOptionalDims :
        LET check == pre_check_gradient(self, <<spacing>>, OptionalList(self, dim), edge_order)
            r == GradResult(check,
                     IF check # "none" THEN GradFailed(check, <<>>)
                     ELSE gradient_helper_float(self, spacing, gradient_dim_preprocess(self, dim), edge_order, stray))
        IN  /\ pc' = "done"
            /\ op' = "gradient"
            /\ args' = GradArgs("gradient_spacing_dim", self, spacing, dim, edge_order)
            /\ ret' = [computed |-> r.computed, returned |-> r.returned]
            /\ err' = r.err
            /\ stub' = <<>>

\* gradient(unit_size, IntArrayRef dim, edge_order)
call_gradient_scalar_dims ==
    /\ pc = "idle"
    /\ \E self \in GradInputs, edge_order \in EdgeOrders, stray \in StrayReads :
        \E dim \in GradDimLists :
        LET check == pre_check_gradient(self, <<Len(dim)>>, <<dim>>, edge_order)
            r == GradResult(check,
                     IF check # "none" THEN GradFailed(check, <<>>)
                     ELSE gradient_helper_float(self, Len(dim), dim, edge_order, stray))
        IN  /\ pc' = "done"
            /\ op' = "gradient"
            /\ args' = GradArgs("gradient_scalar_dims", self, Len(dim), dim, edge_order)
            /\ ret' = [computed |-> r.computed, returned |-> r.returned]
            /\ err' = r.err
            /\ stub' = <<>>

\* gradient(optional unit_size, optional dim, edge_order)
call_gradient_scalar_dim ==
    /\ pc = "idle"
    /\ \E self \in GradInputs, edge_order \in EdgeOrders, stray \in StrayReads :
        \E unit_size \in BOOLEAN, dim \in GradOptionalDims :
        LET check == pre_check_gradient(self,
                        IF unit_size
                        THEN <<IF has_value(dim) THEN 1 ELSE Len(self.shape)>>
                        ELSE <<>>,
                        OptionalList(self, dim), edge_order)
            r == GradResult(check,
                     IF check # "none" THEN GradFailed(check, <<>>)
                     ELSE gradient_helper_float(self,
                        IF has_value(dim) THEN 1 ELSE Len(self.shape),
                        gradient_dim_preprocess(self, dim), edge_order, stray))
        IN  /\ pc' = "done"
            /\ op' = "gradient"
            /\ args' = GradArgs("gradient_scalar_dim", self, IF has_value(dim) THEN 1 ELSE Len(self.shape), dim, edge_order)
            /\ ret' = [computed |-> r.computed, returned |-> r.returned]
            /\ err' = r.err
            /\ stub' = <<>>

\* gradient(IntArrayRef dim, edge_order)
call_gradient_dims ==
    /\ pc = "idle"
    /\ \E self \in GradInputs, edge_order \in EdgeOrders, stray \in StrayReads :
        \E dim \in GradDimLists :
        LET check == pre_check_gradient(self, <<Len(dim)>>, <<dim>>, edge_order)
            r == GradResult(check,
                     IF check # "none" THEN GradFailed(check, <<>>)
                     ELSE gradient_helper_float(self, Len(dim), dim, edge_order, stray))
        IN  /\ pc' = "done"
            /\ op' = "gradient"
            /\ args' = GradArgs("gradient_dims", self, Len(dim), dim, edge_order)
            /\ ret' = [computed |-> r.computed, returned |-> r.returned]
            /\ err' = r.err
            /\ stub' = <<>>

NextGrad ==
    \/ call_gradient_coordinates_dims
    \/ call_gradient_coordinates_dim
    \/ call_gradient_spacing_dims
    \/ call_gradient_spacing_dim
    \/ call_gradient_scalar_dims
    \/ call_gradient_scalar_dim
    \/ call_gradient_dims

SpecGrad == Init /\ [][NextGrad]_vars

----------------------------------------------------------------------------
(* cumprod_backward.  The tensor operations of the function act on each    *)
(* slice along dim on its own, so each branch is given for one slice: the  *)
(* elements of grad, input and output along dim, as sequences.             *)

CumprodInputVals == {0 - 1, 0, 2}

CumprodGradVals == {0 - 1, 1, 2}

\* scalars, vectors, and matrices with and without elements
CumprodShapes ==
    {<<>>, <<1, 2>>, <<2, 2>>, <<2, 0>>} \cup {<<n>> : n \in 0..MaxLen}

\* the elements of x along axis a (1-based) in the slice that holds index i
Line(x, i, a) == [p \in 1..x.shape[a] |-> x.data[[i EXCEPT ![a] = p - 1]]]

\* the running sum / product of a sequence, and the sum from each position
\* to the end
CumSumSeq(q) == [p \in 1..Len(q) |-> SeqSum(SubSeq(q, 1, p))]

CumProdSeq(q) == [p \in 1..Len(q) |-> SeqProd(SubSeq(q, 1, p))]

reversed_cumsum_Forward(w) == [p \in 1..Len(w) |-> SeqSum(SubSeq(w, 1, p))]

\* reversed_cumsum: w.flip(dim).cumsum(dim).flip(dim)
reversed_cumsum(w) == [p \in 1..Len(w) |-> SeqSum(SubSeq(w, p, Len(w)))]

\* cumprod_stub: the running product along the (wrapped) dimension dim
cumprod_stub(self, dim) ==
    [i \in Indices(self.shape) |->
        CumProdSeq(Line(self, i, dim + 1))[i[dim + 1] + 1]]

\* a quotient of integers as a floating-point value
Quotient(n, m) == fdiv_signed(Fin(n, 1), m)

\* the closed form: reversed_cumsum(w, dim).div(input_conj)
cumprod_backward_closed(grad, input, output) ==
    LET w == [p \in 1..Len(input) |-> output[p] * grad[p]]
    IN  [p \in 1..Len(input) |-> Quotient(reversed_cumsum(w)[p], input[p])]

\* mask.max(dim).indices: the first position (0-based) holding the maximum
first_max_index(mask) ==
    IF \E p \in 1..Len(mask) : mask[p]
    THEN (CHOOSE p \in 1..Len(mask) :
              mask[p] /\ \A t \in 1..(p - 1) : ~mask[t]) - 1
    ELSE 0

relu(x) == IF x < 0 THEN 0 ELSE x

gather_before_first_zero_NoFill(output, first_zero_index) ==
    output[relu(first_zero_index - 1) + 1]

\* at::gather(output_conj, dim, (first_zero_index - 1).relu_())
\*     .masked_fill_(first_zero_index == 0, 1.)
gather_before_first_zero(output, first_zero_index) ==
    IF first_zero_index = 0 THEN 1
    ELSE output[relu(first_zero_index - 1) + 1]

\* the branch for !GradMode::is_enabled(), with its masks
cumprod_backward_masked(grad, input, output) ==
    LET n == Len(input)
        w == [p \in 1..n |-> output[p] * grad[p]]
        is_zero == [p \in 1..n |-> IF input[p] = 0 THEN 1 ELSE 0]
        cumsum == CumSumSeq(is_zero)
        mask0 == [p \in 1..n |-> cumsum[p] = 0]
        before == reversed_cumsum([p \in 1..n |-> IF mask0[p] THEN w[p] ELSE 0])
        mask1 == [p \in 1..n |-> cumsum[p] = 1]
        first_zero_index == first_max_index(mask1)
        first_zero_mask == [p \in 1..n |-> p - 1 = first_zero_index /\ mask1[p]]
        mask2 == [p \in 1..n |-> mask1[p] /\ ~first_zero_mask[p]]
        prods == CumProdSeq([p \in 1..n |-> IF mask2[p] THEN input[p] ELSE 1])
        grads == [p \in 1..n |-> IF cumsum[p] # 1 THEN 0 ELSE grad[p]]
        gathered == gather_before_first_zero(output, first_zero_index)
        at_zero == SeqSum([p \in 1..n |-> prods[p] * grads[p]]) * gathered
    IN  [p \in 1..n |->
            IF first_zero_mask[p] THEN Fin(at_zero, 1)
            ELSE IF mask0[p] THEN Quotient(before[p], input[p])
            ELSE Fin(0, 1)]

omitted_products_NoOnes(input, k) ==
    LET dim_size == Len(input)
        prods_until_k == SeqProd(SubSeq(input, 1, k))
        prods_from_k_plus_1 == CumProdSeq(SubSeq(input, k + 2, dim_size))
    IN  IF k = 0 THEN prods_from_k_plus_1
        ELSE IF k = dim_size - 1 THEN <<prods_until_k>>
        ELSE <<prods_until_k>>
                 \o [p \in 1..Len(prods_from_k_plus_1) |->
                        prods_until_k * prods_from_k_plus_1[p]]

\* omitted_products of iteration k of the GradMode::is_enabled() branch
omitted_products(input, k) ==
    LET dim_size == Len(input)
        prods_until_k == SeqProd(SubSeq(input, 1, k))
        prods_from_k_plus_1 == CumProdSeq(SubSeq(input, k + 2, dim_size))
    IN  IF k = 0 THEN <<1>> \o prods_from_k_plus_1
        ELSE IF k = dim_size - 1 THEN <<prods_until_k>>
        ELSE <<prods_until_k>>
                 \o [p \in 1..Len(prods_from_k_plus_1) |->
                        prods_until_k * prods_from_k_plus_1[p]]

\* TORCH_CHECK(omitted_products.size(dim) == dim_size - k) in every iteration
omitted_products_check(input) ==
    \A k \in 0..(Len(input) - 1) :
        Len(omitted_products(input, k)) = Len(input) - k

\* the branch for GradMode::is_enabled(): one iteration per position k
cumprod_backward_omitted(grad, input, output) ==
    [p \in 1..Len(input) |->
        LET k == p - 1
            omitted == omitted_products(input, k)
        IN  Fin(SeqSum([t \in 1..Len(omitted) |-> grad[k + t] * omitted[t]]), 1)]

\* the branch cumprod_backward takes
cumprod_backward_method_ZeroInLine(input, dim, grad_mode) ==
    IF numel(input.shape) <= 1 THEN "grad"
    ELSE IF input.shape[maybe_wrap_dim(dim, Len(input.shape)) + 1] = 1 THEN "grad"
    ELSE IF \A i \in Indices(input.shape) : i[1] = 0 => input.data[i] # 0
    THEN "closed_form"
    ELSE IF ~grad_mode THEN "masked"
    ELSE "omitted_products"

cumprod_backward_method(input, dim, grad_mode) ==
    IF numel(input.shape) <= 1 THEN "grad"
    ELSE IF input.shape[maybe_wrap_dim(dim, Len(input.shape)) + 1] = 1 THEN "grad"
    ELSE IF ~\E i \in Indices(input.shape) : input.data[i] = 0 THEN "closed_form"
    ELSE IF ~grad_mode THEN "masked"
    ELSE "omitted_products"

\* the elements of a tensor as floating-point values
AsFloat(data) == [i \in DOMAIN data |-> Fin(data[i], 1)]

cumprod_backward(grad, input, dim, output, grad_mode) ==
    LET method == cumprod_backward_method(input, dim, grad_mode)
        a == maybe_wrap_dim(dim, Len(input.shape)) + 1
    IN  IF method = "grad"
        THEN [method |-> method, err |-> "none", data |-> AsFloat(grad.data)]
        ELSE IF method = "omitted_products"
                /\ \E i \in Indices(input.shape) :
                       ~omitted_products_check(Line(input, i, a))
        THEN [method |-> method, err |-> "CheckFailed",
              data |-> AsFloat(Filled(input.shape, 0))]
        ELSE [method |-> method, err |-> "none",
              data |-> [i \in Indices(input.shape) |->
                  LET g == Line(grad, i, a)
                      x == Line(input, i, a)
                      y == Line(output, i, a)
                  IN  (CASE method = "closed_form" -> cumprod_backward_closed(g, x, y)
                         [] method = "masked" -> cumprod_backward_masked(g, x, y)
                         [] OTHER -> cumprod_backward_omitted(g, x, y))[i[a] + 1]]]

\* cumprod_backward as autograd calls it: output is cumprod(input, dim)
call_cumprod_backward ==
    /\ pc = "idle"
    /\ \E shape \in CumprodShapes, grad_mode \in BOOLEAN :
        \E input \in TensorsOf(shape, CumprodInputVals),
           grad \in TensorsOf(shape, CumprodGradVals),
           dim \in ValidDims(Len(shape)) :
        LET output == [shape |-> shape,
                       data |-> IF numel(shape) = 0 \/ Len(shape) = 0
                                THEN input.data
                                ELSE cumprod_stub(input, maybe_wrap_dim(dim, Len(shape)))]
            r == cumprod_backward(grad, input, dim, output, grad_mode)
        IN  /\ pc' = "done"
            /\ op' = "cumprod_backward"
            /\ args' = [grad |-> grad, input |-> input, dim |-> dim,
                        output |-> output, grad_mode |-> grad_mode]
            /\ ret' = [method |-> r.method, data |-> r.data]
            /\ err' = r.err
            /\ stub' = <<>>

NextCumprod == call_cumprod_backward

SpecCumprod == Init /\ [][NextCumprod]_vars

----------------------------------------------------------------------------
(* The parallel reduction of std_var_all_cpu: at::parallel_reduce hands    *)
(* each thread one chunk of [0, numel), every thread runs the reduction    *)
(* lambda on its chunk, and the partial results are combined with +.       *)
(* While the reduction runs, ret holds its state: chunks (begin and end    *)
(* of each thread), next (the index a thread handles next), acc (the       *)
(* partial accumulators), writers (the threads that wrote an accumulator), *)
(* hits (how often an element was added), returned, combined and sum.      *)

MaxThreads == 2

\* the grain sizes the reduction is run with
GrainSizes == {1, 2}

divup(x, y) == (x + y - 1) \div y

Min(a, b) == IF a < b THEN a ELSE b

\* at::parallel_reduce: one chunk when the range is within the grain size
\* or there is one thread; otherwise a chunk per thread, empty for a thread
\* whose begin is past the end
parallel_chunks(n, grain_size, num_threads) ==
    IF ~(n > grain_size /\ num_threads > 1)
    THEN <<[begin |-> 0, end |-> n]>>
    ELSE LET threads == Min(num_threads, divup(n, grain_size))
             chunk_size == divup(n, threads)
         IN  [tid \in 1..num_threads |->
                 IF (tid - 1) * chunk_size < n /\ tid <= threads
                 THEN [begin |-> (tid - 1) * chunk_size,
                       end |-> Min(n, tid * chunk_size)]
                 ELSE [begin |-> n, end |-> n]]

reduction_target_Shared(tid) == 1

\* the accumulator the reduction lambda of thread tid adds to: thread_sum
\* is the lambda's own by-value parameter
reduction_target(tid) == tid

reduction_first_SkipOne(begin, end) == begin + 1

\* the first index the lambda handles in serial_for_each(..., {begin, end})
reduction_first(begin, end) == begin

\* dx * dx for element j (0-based) with mean = S / N, in units of 1 / N^2
dx2(self, j) ==
    LET mean == all_mean(self)
    IN  (mean[2] * self[j + 1] - mean[1]) * (mean[2] * self[j + 1] - mean[1])

\* std_var_all_cpu up to the call of at::parallel_reduce
reduce_begin ==
    /\ pc = "idle"
    /\ \E self \in VarInputs, num_threads \in 1..MaxThreads,
          grain_size \in GrainSizes, correction \in {0, 1},
          take_sqrt \in BOOLEAN :
        LET chunks == parallel_chunks(Len(self), grain_size, num_threads)
        IN  /\ pc' = "reducing"
            /\ op' = "std_var_all_cpu"
            /\ args' = [self |-> self, dtype |-> "Double",
                        correction |-> correction, take_sqrt |-> take_sqrt,
                        num_threads |-> num_threads, grain_size |-> grain_size]
            /\ ret' = [chunks |-> chunks,
                       next |-> [t \in 1..Len(chunks) |->
                                    Min(reduction_first(chunks[t].begin, chunks[t].end),
                                        chunks[t].end)],
                       acc |-> [t \in 1..Len(chunks) |-> 0],
                       writers |-> [t \in 1..Len(chunks) |-> {}],
                       hits |-> [j \in 1..Len(self) |-> 0],
                       returned |-> [t \in 1..Len(chunks) |-> FALSE],
                       combined |-> 0,
                       sum |-> 0]
            /\ err' = "none"
            /\ stub' = <<>>

\* one iteration of the inner loop of the lambda in thread tid
reduce_step ==
    /\ pc = "reducing"
    /\ \E tid \in 1..Len(ret.chunks) :
        /\ ~ret.returned[tid]
        /\ ret.next[tid] < ret.chunks[tid].end
        /\ LET j == ret.next[tid]
               target == reduction_target(tid)
           IN  ret' = [ret EXCEPT
                          !.next[tid] = j + 1,
                          !.acc[target] = @ + dx2(args.self, j),
                          !.writers[target] = @ \cup {tid},
                          !.hits[j + 1] = @ + 1]
    /\ UNCHANGED <<pc, op, args, err, stub>>

\* the lambda of thread tid returns thread_sum
reduce_return ==
    /\ pc = "reducing"
    /\ \E tid \in 1..Len(ret.chunks) :
        /\ ~ret.returned[tid]
        /\ ret.next[tid] >= ret.chunks[tid].end
        /\ ret' = [ret EXCEPT !.returned[tid] = TRUE]
    /\ UNCHANGED <<pc, op, args, err, stub>>

\* at::parallel_reduce after the parallel region: the partial results are
\* combined one by one with std::plus
reduce_combine ==
    /\ pc \in {"reducing", "combining"}
    /\ \A tid \in 1..Len(ret.chunks) : ret.returned[tid]
    /\ ret.combined < Len(ret.chunks)
    /\ pc' = "combining"
    /\ ret' = [ret EXCEPT !.combined = @ + 1,
                          !.sum = @ + ret.acc[ret.combined + 1]]
    /\ UNCHANGED <<op, args, err, stub>>

\* std_var_all_cpu after at::parallel_reduce: the division and the root
reduce_finish ==
    /\ pc = "combining"
    /\ ret.combined = Len(ret.chunks)
    /\ LET N == Len(args.self)
           sum_dx2 == Fin(ret.sum, N * N)
           var == fdiv_signed(sum_dx2, std_var_divisor(N, args.correction))
       IN  /\ pc' = "done"
           /\ ret' = [result |-> IF args.take_sqrt THEN fsqrt(var) ELSE var,
                      sum_dx2 |-> sum_dx2,
                      hits |-> ret.hits,
                      writers |-> ret.writers,
                      chunks |-> ret.chunks]
    /\ UNCHANGED <<op, args, err, stub>>

NextPar ==
    reduce_begin \/ reduce_step \/ reduce_return \/ reduce_combine \/ reduce_finish

SpecPar == Init /\ [][NextPar]_vars

----------------------------------------------------------------------------
(* std_var_out for floating-point input on CPU: the choice between the     *)
(* NaN fill, the whole-tensor path and the kernel.                         *)

\* the inputs: every tensor over two values, and the vectors of VarInputs
StdInputs ==
    Tensors({0, 2})
        \cup {[shape |-> <<Len(q)>>,
               data |-> [i \in Indices(<<Len(q)>>) |-> q[i[1] + 1]]] : q \in VarInputs}

\* the elements of self in the order the iterator of std_var_all_cpu
\* visits them
iter_elements(self) ==
    LET flat == reshape_flat(self)
    IN  [j \in 1..numel(self.shape) |-> flat.data[<<j - 1>>]]

\* std_var_stub: for the input elements at S, the sum of squared
\* deviations from their mean over max(0, |S| - correction), and its root
std_var_kernel(S, data, correction, take_sqrt) ==
    LET N == Cardinality(S)
        total == SumOver(S, data)
        squares == [i \in S |-> (N * data[i] - total) * (N * data[i] - total)]
        var == fdiv_signed(Fin(SumOver(S, squares), N * N),
                           Max(0, N - correction))
    IN  IF take_sqrt THEN fsqrt(var) ELSE var

std_var_out_path_AnyResult(iter_numel, result_numel) ==
    IF iter_numel = 0 THEN "nan_fill" ELSE "std_var_all_cpu"

\* the branch std_var_out takes for a CPU iterator whose common dtype is
\* neither BFloat16 nor Half
std_var_out_path(iter_numel, result_numel) ==
    IF iter_numel = 0 THEN "nan_fill"
    ELSE IF result_numel = 1 THEN "std_var_all_cpu"
    ELSE "std_var_stub"

\* std_var_out for a Float or Double input on CPU; dim is an optional list
std_var_out(self, dim, correction, keepdim, take_sqrt) ==
    LET iter == make_reduction(self, IF has_value(dim) THEN dim[1] ELSE <<>>, keepdim)
        path == std_var_out_path(iter.numel, numel(iter.out_shape))
    IN  [path |-> path,
         shape |-> iter.out_shape,
         data |->
            CASE path = "nan_fill" -> Filled(iter.out_shape, NaN)
              [] path = "std_var_all_cpu" ->
                    Filled(iter.out_shape,
                           std_var_all_cpu(iter_elements(self), "Double",
                                           correction, take_sqrt).result)
              [] OTHER ->
                    [o \in Indices(iter.out_shape) |->
                        std_var_kernel(Reduced(self, iter.mask, keepdim, o),
                                       self.data, correction, take_sqrt)]]

call_std_var_out ==
    /\ pc = "idle"
    /\ \E self \in StdInputs, keepdim \in BOOLEAN, take_sqrt \in BOOLEAN,
          correction \in {0, 1} :
        \E dim \in {<<>>} \cup {<<ds>> : ds \in DimLists(Len(self.shape))} :
        LET r == std_var_out(self, dim, correction, keepdim, take_sqrt)
        IN  /\ pc' = "done"
            /\ op' = "std_var_out"
            /\ args' = [self |-> self, dim |-> dim, correction |-> correction,
                        keepdim |-> keepdim, take_sqrt |-> take_sqrt]
            /\ ret' = r
            /\ err' = "none"
            /\ stub' = IF r.path = "std_var_stub" THEN <<"std_var_stub">> ELSE <<>>

NextStd == call_std_var_out

SpecStd == Init /\ [][NextStd]_vars

----------------------------------------------------------------------------
(* cpu_equal: the element comparison runs in parallel over chunks of the   *)
(* iterator, with one shared flag.  While it runs, ret holds chunks, the   *)
(* position of each thread (at: "start", "loop" or "done"), the index it   *)
(* compares next, and the flag result.                                     *)

EqualVals == {0, 1}

\* Long vectors of up to MaxLen elements
EqualInputs == UNION {[1..n -> EqualVals] : n \in 0..MaxLen}

elements_differ_Never(a, b) == FALSE

\* *((scalar_t*)self_data) != *((scalar_t*)other_data) for an integer dtype
elements_differ(a, b) == a # b

\* cpu_equal up to the start of iter.for_each; names_equal is the outcome
\* of are_names_equal
equal_begin ==
    /\ pc = "idle"
    /\ \E self \in EqualInputs, other \in EqualInputs, names_equal \in BOOLEAN,
          num_threads \in 1..MaxThreads, grain_size \in GrainSizes :
        LET chunks == parallel_chunks(Len(self), grain_size, num_threads)
            compared == names_equal /\ Len(self) = Len(other)
        IN  /\ pc' = IF compared THEN "comparing" ELSE "done"
            /\ op' = "cpu_equal"
            /\ args' = [self |-> self, other |-> other, names_equal |-> names_equal,
                        num_threads |-> num_threads, grain_size |-> grain_size]
            /\ ret' = IF compared
                      THEN [chunks |-> chunks,
                            at |-> [t \in 1..Len(chunks) |->
                                       IF chunks[t].begin < chunks[t].end
                                       THEN "start" ELSE "done"],
                            next |-> [t \in 1..Len(chunks) |-> chunks[t].begin],
                            result |-> TRUE]
                      ELSE [result |-> FALSE]
            /\ err' = "none"
            /\ stub' = <<>>

\* the callback of a thread starts: if (!result) return;
equal_enter ==
    /\ pc = "comparing"
    /\ \E t \in 1..Len(ret.chunks) :
        /\ ret.at[t] = "start"
        /\ ret' = [ret EXCEPT !.at[t] = IF ret.result THEN "loop" ELSE "done"]
    /\ UNCHANGED <<pc, op, args, err, stub>>

\* one iteration of the loop of a thread: a difference clears the flag and
\* ends the callback
equal_compare ==
    /\ pc = "comparing"
    /\ \E t \in 1..Len(ret.chunks) :
        /\ ret.at[t] = "loop"
        /\ LET j == ret.next[t]
           IN  ret' = IF elements_differ(args.self[j + 1], args.other[j + 1])
                      THEN [ret EXCEPT !.result = FALSE, !.at[t] = "done"]
                      ELSE [ret EXCEPT !.next[t] = j + 1,
                                       !.at[t] = IF j + 1 < ret.chunks[t].end
                                                 THEN "loop" ELSE "done"]
    /\ UNCHANGED <<pc, op, args, err, stub>>

\* every thread is through: return result.load()
equal_return ==
    /\ pc = "comparing"
    /\ \A t \in 1..Len(ret.chunks) : ret.at[t] = "done"
    /\ pc' = "done"
    /\ ret' = [result |-> ret.result]
    /\ UNCHANGED <<op, args, err, stub>>

NextEqual == equal_begin \/ equal_enter \/ equal_compare \/ equal_return

SpecEqual == Init /\ [][NextEqual]_vars

----------------------------------------------------------------------------
(* logsumexp: the shapes of the maxima and of the sum.                     *)

\* dim_list_to_bitset(dims, ndims) for a list that is in range: the named
\* dimensions, none for the empty list
dims_to_squeeze(dims, ndims) ==
    {maybe_wrap_dim(dims[k], ndims) : k \in 1..Len(dims)}

RECURSIVE squeeze_from(_, _, _)
\* the loop of squeeze_multiple from dimension i down to 0: squeeze(i)
\* removes dimension i when its size is 1
squeeze_from(shape, bits, i) ==
    IF i < 0 THEN shape
    ELSE squeeze_from(
             IF i \in bits /\ shape[i + 1] = 1
             THEN SubSeq(shape, 1, i) \o SubSeq(shape, i + 2, Len(shape))
             ELSE shape,
             bits, i - 1)

squeeze_multiple_AllWhenEmpty(shape, dims) ==
    squeeze_from(shape, make_dim_mask(dims, Len(shape)), Len(shape) - 1)

squeeze_multiple(shape, dims) ==
    squeeze_from(shape, dims_to_squeeze(dims, Len(shape)), Len(shape) - 1)

\* the shape two shapes broadcast to, or <<-1>> when they do not
infer_size(a, b) ==
    LET n == Max(Len(a), Len(b))
        ea == [k \in 1..n |-> IF k <= n - Len(a) THEN 1 ELSE a[k - (n - Len(a))]]
        eb == [k \in 1..n |-> IF k <= n - Len(b) THEN 1 ELSE b[k - (n - Len(b))]]
    IN  IF \E k \in 1..n : ea[k] # eb[k] /\ ea[k] # 1 /\ eb[k] # 1
        THEN <<0 - 1>>
        ELSE [k \in 1..n |-> IF ea[k] = 1 THEN eb[k] ELSE ea[k]]

\* logsumexp_out_impl on shapes: amax with keepdim, the squeeze, sum_out
\* and the in-place add, which needs the broadcast shape to be the
\* result's
logsumexp_out_impl(shape, dims, keepdim) ==
    LET mask == make_dim_mask(dims, Len(shape))
        result == get_reduction_shape(shape, mask, keepdim)
    IN  IF numel(shape) # 0
        THEN LET maxes == get_reduction_shape(shape, mask, TRUE)
                 maxes_squeezed == IF keepdim THEN maxes
                                   ELSE squeeze_multiple(maxes, dims)
             IN  [err |-> IF infer_size(result, maxes_squeezed) = result
                          THEN "none" ELSE "BroadcastShape",
                  shape |-> result,
                  maxes |-> <<maxes>>,
                  maxes_squeezed |-> <<maxes_squeezed>>]
        ELSE [err |-> "none", shape |-> result,
              maxes |-> <<>>, maxes_squeezed |-> <<>>]

\* logsumexp on a floating-point input
call_logsumexp ==
    /\ pc = "idle"
    /\ \E shape \in Shapes, keepdim \in BOOLEAN :
        \E dims \in DimLists(Len(shape)) :
        LET r == logsumexp_out_impl(shape, dims, keepdim)
        IN  /\ pc' = "done"
            /\ op' = "logsumexp"
            /\ args' = [shape |-> shape, dims |-> dims, keepdim |-> keepdim]
            /\ ret' = [shape |-> r.shape, maxes |-> r.maxes,
                       maxes_squeezed |-> r.maxes_squeezed]
            /\ err' = r.err
            /\ stub' = <<>>

NextLse == call_logsumexp

SpecLse == Init /\ [][NextLse]_vars

----------------------------------------------------------------------------
(* Properties of the dtype resolution.                                     *)

IntegralOrBool == {"Byte", "Char", "Short", "Int", "Long", "Bool"}

FloatingOrComplex ==
    {"Half", "BFloat16", "Float", "Double",
     "ComplexHalf", "ComplexFloat", "ComplexDouble"}

\* the four-step priority, written out from the arguments of the call
PriorityDtype(a) ==
    IF a.dtype # nullopt THEN a.dtype
    ELSE IF a.result_dtype # undefined THEN a.result_dtype
    ELSE IF a.self_dtype \in IntegralOrBool THEN "Long"
    ELSE a.self_dtype

MetaCalled(names) == pc = "done" /\ op \in names

\* C1: for sum, prod, mean, cumsum and cumprod the resolved output dtype is
\* the explicit dtype if given, else the dtype of the existing output if it
\* is defined, else int64 for an integral or boolean input, else the input's
\* own dtype (whenever the call resolves a dtype at all: mean rejects a
\* non-floating input before resolving one).
C1_DtypePriority ==
    (MetaCalled({"sum", "prod", "mean", "cumsum", "cumprod"}) /\ ret.output_set)
        => ret.out_dtype = PriorityDtype(args)

\* an existing Float output and no explicit dtype decide the dtype of a sum
\* over an Int input
C1_Witness ==
    /\ MetaCalled({"sum"})
    /\ args.self_dtype = "Int"
    /\ args.dtype = nullopt
    /\ args.result_dtype = "Float"
    /\ ret.out_dtype = "Float"

\* C2 as stated: norm with an explicit dtype resolves to that dtype whether
\* or not an existing output is supplied.
C2_ExplicitDtypeWins ==
    (MetaCalled({"norm_dtype"}) /\ ret.output_set)
        => ret.out_dtype = args.dtype

\* C2 amended: norm with an explicit dtype resolves to the dtype of the
\* existing output when one is defined, and to the explicit dtype only when
\* no output is supplied.
C2_ResultDtypeWins ==
    (MetaCalled({"norm_dtype"}) /\ ret.output_set)
        => ret.out_dtype = IF args.result_dtype # undefined
                           THEN args.result_dtype
                           ELSE args.dtype

\* an explicit Double dtype loses against an existing Float output
C2_Witness ==
    /\ MetaCalled({"norm_dtype"})
    /\ args.dtype = "Double"
    /\ args.result_dtype = "Float"
    /\ ret.output_set
    /\ ret.out_dtype = "Float"

\* C3 as stated: mean and both norm overloads report InvalidDtype, with no
\* output set, exactly when the input's dtype is neither floating nor complex.
C3_RejectsByInputDtype ==
    MetaCalled({"mean", "norm", "norm_dtype"}) =>
        /\ (err = "InvalidDtype") <=> (args.self_dtype \notin FloatingOrComplex)
        /\ (err = "InvalidDtype") => ~ret.output_set

\* C3 amended: mean and norm without a dtype reject exactly the inputs whose
\* dtype is neither floating nor complex; norm with an explicit dtype rejects
\* exactly the explicit dtypes that are neither floating nor complex, whatever
\* the input's dtype is; a rejected call sets no output.
C3_RejectsByCheckedDtype ==
    MetaCalled({"mean", "norm", "norm_dtype"}) =>
        LET checked == IF op = "norm_dtype" THEN args.dtype ELSE args.self_dtype
        IN  /\ (err = "InvalidDtype") <=> (checked \notin FloatingOrComplex)
            /\ (err = "InvalidDtype") <=> ~ret.output_set

\* a floating input is rejected because the explicit dtype is integral
C3_Witness ==
    /\ MetaCalled({"norm_dtype"})
    /\ args.self_dtype = "Float"
    /\ args.dtype = "Long"
    /\ err = "InvalidDtype"
    /\ ~ret.output_set

----------------------------------------------------------------------------
(* Properties of the reductions.                                           *)

Called(names) == pc = "done" /\ op \in names /\ err = "none"

\* the number of elements the reduction runs over
InputCount == Cardinality(Indices(args.self.shape))

EveryOutputIs(v) == \A o \in Indices(ret.shape) : ret.data[o] = v

FillIdentity ==
    CASE op \in {"sum", "nansum", "norm"} -> 0
      [] op = "prod" -> 1

\* C4: when the reduction runs over zero elements, sum and nansum fill every
\* output element with 0, prod with 1 and norm with 0, and no kernel stub is
\* invoked; when it runs over at least one element, exactly one stub is
\* invoked and nothing is filled.
C4_EmptyReductionFillsIdentity ==
    Called({"sum", "nansum", "prod", "norm"}) =>
        /\ InputCount = 0 =>
              /\ ret.fill = <<FillIdentity>>
              /\ EveryOutputIs(FillIdentity)
              /\ stub = <<>>
        /\ InputCount > 0 =>
              /\ ret.fill = <<>>
              /\ Len(stub) = 1

\* a product over the empty dimension 0 of a 0 x 2 tensor writes two ones
C4_Witness ==
    /\ Called({"prod"})
    /\ args.self.shape = <<0, 2>>
    /\ args.dim = <<0>>
    /\ ret.shape = <<2>>
    /\ EveryOutputIs(1)
    /\ stub = <<>>

\* C5: on an input with zero elements all fills every output element with
\* true and any with false, with or without a dim; on an input with exactly
\* one element the output is that element's truth value; the kernel is used
\* exactly when the input has two or more elements.
C5_AllAnyIdentity ==
    Called({"all", "any"}) =>
        /\ InputCount = 0 => EveryOutputIs(IF op = "all" THEN 1 ELSE 0)
        /\ InputCount = 1 =>
              /\ Indices(ret.shape) # {}
              /\ \A i \in Indices(args.self.shape) :
                    EveryOutputIs(IF args.self.data[i] # 0 THEN 1 ELSE 0)
        /\ InputCount < 2 <=> stub = <<>>

\* any over the empty dimension 0 of a 0 x 2 tensor writes two falses
C5_Witness ==
    /\ Called({"any"})
    /\ args.self.shape = <<0, 2>>
    /\ args.dim = <<0>>
    /\ ret.shape = <<2>>
    /\ EveryOutputIs(0)
    /\ stub = <<>>

\* the dimensions named by the dim list of the call, wrapped
NamedDims ==
    {IF args.dim[k] < 0 THEN args.dim[k] + Len(args.self.shape) ELSE args.dim[k] :
        k \in 1..Len(args.dim)}

RECURSIVE SizeProduct(_, _)
SizeProduct(shape, D) ==
    IF D = {} THEN 1
    ELSE LET d == CHOOSE x \in D : TRUE
         IN  shape[d + 1] * SizeProduct(shape, D \ {d})

\* the element count of the claim: the product of the sizes of the
\* dimensions in D, and the number of elements when D is empty or the rank 0
ElementCount ==
    IF args.dim = <<>> \/ args.self.shape = <<>>
    THEN InputCount
    ELSE SizeProduct(args.self.shape, NamedDims)

\* the sum of the elements reduced into output index o
SumInto(o) ==
    LET D == IF args.dim = <<>> \/ args.self.shape = <<>>
             THEN 0..(Len(args.self.shape) - 1)
             ELSE NamedDims
    IN  SumOver(Reduced(args.self, D, args.keepdim, o), args.self.data)

\* C6: every element of mean over the dim list D is the sum over D divided
\* by the product of the sizes of the dimensions in D (by numel when D is
\* empty or the rank is 0); when that count is 0 the element is NaN; no
\* error is raised.
C6_MeanIsSumOverCount ==
    (pc = "done" /\ op = "mean") =>
        /\ err = "none"
        /\ \A o \in Indices(ret.shape) :
              feq(ret.data[o],
                  IF ElementCount = 0 THEN NaN
                  ELSE Fin(SumInto(o), ElementCount))

\* the CPU mean over the empty dimension 0 of a 0 x 2 tensor is two NaNs
C6_Witness ==
    /\ Called({"mean"})
    /\ args.device = "cpu"
    /\ args.self.shape = <<0, 2>>
    /\ args.dim = <<0>>
    /\ ret.shape = <<2>>
    /\ EveryOutputIs(NaN)

\* the mean over dimension 1 of a 2 x 2 tensor divides each row sum by 2
C6_WitnessRows ==
    /\ Called({"mean"})
    /\ args.self.shape = <<2, 2>>
    /\ args.dim = <<0 - 1>>
    /\ ~args.keepdim
    /\ args.self.data[<<0, 0>>] = 1
    /\ args.self.data[<<0, 1>>] = 2
    /\ ret.data[<<0>>] = Fin(3, 2)

----------------------------------------------------------------------------
(* Properties of std_var_all_cpu.                                          *)

VarCalled == pc = "done" /\ op = "std_var_all_cpu"

\* every element of the input equals the first one
AllEqual(q) == \A j \in 1..Len(q) : q[j] = q[1]

ClampedDivisor ==
    IF Len(args.self) - args.correction > 0
    THEN Len(args.self) - args.correction
    ELSE 0

\* C7 as stated: the divisor is max(0, N - correction), and for a non-empty
\* input and a correction >= N the result is NaN, with no error raised.
C7_ZeroDivisorGivesNaN ==
    VarCalled =>
        /\ err = "none"
        /\ ret.divisor = ClampedDivisor
        /\ args.correction >= Len(args.self) => ret.result = NaN

\* C7 amended: the divisor is max(0, N - correction); for a non-empty input
\* of finite values and a correction >= N no error is raised and the result
\* is NaN when the sum of squared deviations is 0 (all elements equal) and
\* +infinity when it is positive.
C7_ZeroDivisorGivesNaNOrInf ==
    VarCalled =>
        /\ err = "none"
        /\ ret.divisor = ClampedDivisor
        /\ args.correction >= Len(args.self) =>
              ret.result = IF AllEqual(args.self) THEN NaN ELSE Inf(1)

\* the variance of [0, 1] with correction 2 is +infinity
C7_Witness ==
    /\ VarCalled
    /\ args.self = <<0, 1>>
    /\ args.correction = 2
    /\ ~args.take_sqrt
    /\ ret.divisor = 0
    /\ ret.result = Inf(1)

----------------------------------------------------------------------------
(* Properties of cummax / cummin.                                          *)

ScanCalled == pc = "done" /\ op \in {"cummax", "cummin"}

\* the positions along the scan dimension, and the tensor index of each
ScanPositions ==
    IF args.self.shape = <<>> THEN {0} ELSE 0..(args.self.shape[1] - 1)

At(i) == IF args.self.shape = <<>> THEN <<>> ELSE <<i>>

\* the same floating-point value, NaN counting as the same as NaN
SameValue(a, b) == (a.k = "nan" /\ b.k = "nan") \/ (a.k = "fin" /\ feq(a, b))

\* the positions up to i whose input element is the running value at i
Occurrences(i) ==
    {j \in 0..i : SameValue(args.self.data[At(j)], ret.values[At(i)])}

Least(S) == CHOOSE x \in S : \A y \in S : x <= y

Greatest(S) == CHOOSE x \in S : \A y \in S : y <= x

NoNaNInput == \A i \in ScanPositions : args.self.data[At(i)].k # "nan"

\* C8 as stated: an element equal to the running extremum does not update
\* the index, so the reported index is the earliest position at which the
\* running extremum occurs.
C8_TiesKeepEarliestIndex ==
    ScanCalled =>
        \A i \in ScanPositions :
            /\ Occurrences(i) # {}
            /\ ret.indices[At(i)] = Least(Occurrences(i))

\* C8 amended: an element equal to the running extremum does update the
\* index (the comparators are greater_equal and less_equal), so the reported
\* index is the latest position, up to the current one, at which the running
\* extremum occurs.
C8_TiesTakeLatestIndex ==
    ScanCalled =>
        \A i \in ScanPositions :
            /\ Occurrences(i) # {}
            /\ ret.indices[At(i)] = Greatest(Occurrences(i))

\* cummax of [2, 2] reports the indices [0, 1]
C8_Witness ==
    /\ pc = "done"
    /\ op = "cummax"
    /\ args.self.shape = <<2>>
    /\ args.self.data[<<0>>] = Fin(2, 1)
    /\ args.self.data[<<1>>] = Fin(2, 1)
    /\ ret.indices[<<0>>] = 0
    /\ ret.indices[<<1>>] = 1

\* C9: without NaN in the input the values of cummax never decrease along
\* the scan dimension and those of cummin never increase; for every input
\* the indices never decrease and indices[i] <= i; cummax([1,3,2,5,4]) has
\* the values [1,3,3,5,5] and the indices [0,1,1,3,3].
C9_ScanMonotone ==
    ScanCalled =>
        /\ NoNaNInput =>
              \A i, j \in ScanPositions :
                  i <= j =>
                      IF op = "cummax"
                      THEN less_equal(ret.values[At(i)], ret.values[At(j)])
                      ELSE greater_equal(ret.values[At(i)], ret.values[At(j)])
        /\ \A i, j \in ScanPositions :
              i <= j => ret.indices[At(i)] <= ret.indices[At(j)]
        /\ \A i \in ScanPositions :
              ret.indices[At(i)] >= 0 /\ ret.indices[At(i)] <= i
        /\ (op = "cummax" /\ args.self = Vector(<<1, 3, 2, 5, 4>>)) =>
              /\ ret.values = Vector(<<1, 3, 3, 5, 5>>).data
              /\ ret.indices =
                    [i \in Indices(<<5>>) |-> <<0, 1, 1, 3, 3>>[i[1] + 1]]

\* the documented example was computed
C9_Witness ==
    /\ pc = "done"
    /\ op = "cummax"
    /\ args.self = Vector(<<1, 3, 2, 5, 4>>)
    /\ ret.values[<<4>>] = Fin(5, 1)
    /\ ret.indices[<<4>>] = 3

----------------------------------------------------------------------------
(* Properties of diff.                                                     *)

DiffCalled == pc = "done" /\ op = "diff"

\* diff was called on a tensor of rank >= 1 with no prepend, no append and
\* a non-negative order
PlainDiff ==
    /\ DiffCalled
    /\ args.prepend = <<>>
    /\ args.append = <<>>
    /\ args.n >= 0
    /\ Len(args.self.shape) >= 1

\* position (1-based, in the shape) of the dimension diff was called with
DiffAxis ==
    IF args.dim < 0 THEN args.dim + Len(args.self.shape) + 1 ELSE args.dim + 1

Shorter(len) == IF len >= 1 THEN len - 1 ELSE 0

\* the first difference of x along axis a: out[i] = x[i+1] - x[i], or
\* x[i+1] XOR x[i] for booleans
FirstDifference(x, a, boolean) ==
    LET sh == [x.shape EXCEPT ![a] = Shorter(x.shape[a])]
    IN  [shape |-> sh,
         data |-> [i \in Indices(sh) |->
                      LET next == x.data[[i EXCEPT ![a] = i[a] + 1]]
                          here == x.data[i]
                      IN  IF boolean
                          THEN (next /\ ~here) \/ (~next /\ here)
                          ELSE next - here]]

RECURSIVE NthDifference(_, _, _, _)
NthDifference(x, a, boolean, n) ==
    IF n = 0 THEN x
    ELSE NthDifference(FirstDifference(x, a, boolean), a, boolean, n - 1)

ExampleVector(q) == [shape |-> <<Len(q)>>,
                     data |-> [i \in Indices(<<Len(q)>>) |-> q[i[1] + 1]]]

\* C10: diff without prepend/append and with n >= 0 raises no error and
\* returns n successive first differences along dim (subtraction, XOR for
\* booleans); the output size along dim is max(size - n, 0), the other
\* sizes are those of the input, n = 0 returns the input's contents, and
\* diff([1,2,4,7,0], n=1) is [1,2,3,-7].
C10_DiffIsNthDifference ==
    PlainDiff =>
        /\ err = "none"
        /\ ret.result = NthDifference(args.self, DiffAxis,
                                      args.dtype = "Bool", args.n)
        /\ Len(ret.result.shape) = Len(args.self.shape)
        /\ \A k \in 1..Len(args.self.shape) :
              ret.result.shape[k] =
                  IF k # DiffAxis THEN args.self.shape[k]
                  ELSE IF args.self.shape[k] - args.n >= 0
                       THEN args.self.shape[k] - args.n
                       ELSE 0
        /\ (args.n = 0 => ret.result = args.self)
        /\ (args.self = ExampleVector(<<1, 2, 4, 7, 0>>) /\ args.n = 1
                => ret.result = ExampleVector(<<1, 2, 3, 0 - 7>>))

\* the second difference of [1,2,4,7,0] was taken: [1,1,-10]
C10_Witness ==
    /\ PlainDiff
    /\ args.self = ExampleVector(<<1, 2, 4, 7, 0>>)
    /\ args.n = 2
    /\ ret.result = ExampleVector(<<1, 1, 0 - 10>>)

\* a boolean matrix was differenced along its first dimension by negative
\* index, giving a true element
C10_WitnessBoolean ==
    /\ PlainDiff
    /\ args.dtype = "Bool"
    /\ Len(args.self.shape) = 2
    /\ args.dim = 0 - 2
    /\ args.n = 1
    /\ \E i \in DOMAIN ret.result.data : ret.result.data[i] = TRUE

\* the order exceeded the size along dim: the output is empty along dim
C10_WitnessEmptied ==
    /\ PlainDiff
    /\ args.n > args.self.shape[DiffAxis]
    /\ args.self.shape[DiffAxis] >= 1
    /\ ret.result.shape[DiffAxis] = 0

----------------------------------------------------------------------------
(* Properties of diff after cumsum.                                        *)

\* position (1-based, in the shape) of the dimension cumsum was called with
CumAxis ==
    IF args.dim < 0 THEN args.dim + Len(args.self.shape) + 1 ELSE args.dim + 1

\* the input without its first slice along axis a
WithoutFirstSlice(x, a) ==
    LET sh == [x.shape EXCEPT ![a] = x.shape[a] - 1]
    IN  [shape |-> sh,
         data |-> [i \in Indices(sh) |-> x.data[[i EXCEPT ![a] = i[a] + 1]]]]

DiffOfCumsumCalled ==
    /\ pc = "done"
    /\ op = "diff_of_cumsum"
    /\ Len(args.self.shape) >= 1

\* C11: for an integer tensor T that is non-empty along dim,
\* diff(cumsum(T, dim), 1, dim) raises no error and equals T without its
\* first slice along dim.
C11_DiffOfCumsumDropsFirstSlice ==
    (DiffOfCumsumCalled /\ args.self.shape[CumAxis] >= 1) =>
        /\ err = "none"
        /\ ret.result = WithoutFirstSlice(args.self, CumAxis)

\* the round trip ran on a matrix with two slices along a negative dim and
\* returned a non-empty tensor
C11_Witness ==
    /\ DiffOfCumsumCalled
    /\ Len(args.self.shape) = 2
    /\ args.dim < 0
    /\ args.self.shape[CumAxis] = 2
    /\ stub = <<"cumsum_stub">>
    /\ err = "none"
    /\ numel(ret.result.shape) >= 1
    /\ ret.result = WithoutFirstSlice(args.self, CumAxis)

----------------------------------------------------------------------------
(* Properties of argmax, argmin and aminmax.                               *)

ArgCalled == pc = "done" /\ op \in {"argmax", "argmin", "aminmax"}

\* position (1-based, in the shape) of the dimension the call named
ArgAxis ==
    IF args.dim[1] < 0 THEN args.dim[1] + Len(args.self.shape) + 1
    ELSE args.dim[1] + 1

\* the call named a dimension of the input, and that dimension has size s
NamedDimHasSize(s) ==
    /\ args.dim # <<>>
    /\ Len(args.self.shape) >= 1
    /\ args.self.shape[ArgAxis] = s

\* C12: argmax, argmin and aminmax with no dim on an input with zero
\* elements report an error and set no output; with a dim of size 0 they
\* report an error; in neither case is a kernel invoked.
C12_EmptyArgReductionRejected ==
    ArgCalled =>
        /\ (args.dim = <<>> /\ numel(args.self.shape) = 0) =>
              (err # "none" /\ ~ret.output_set /\ stub = <<>>)
        /\ NamedDimHasSize(0) => (err # "none" /\ stub = <<>>)

\* argmax without a dim was rejected on an empty matrix
C12_Witness ==
    /\ pc = "done"
    /\ op = "argmax"
    /\ args.dim = <<>>
    /\ args.self.shape = <<2, 0>>
    /\ err = "IndexError"
    /\ ~ret.output_set

\* aminmax along a dimension of size 0 was rejected
C12_WitnessDim ==
    /\ pc = "done"
    /\ op = "aminmax"
    /\ NamedDimHasSize(0)
    /\ err # "none"

\* C13: argmax/argmin along a dimension of size 1 fill every output element
\* with index 0, build no iterator and invoke no stub, and the output is
\* the one the kernel produces for the same call.
C13_SizeOneDimGivesIndexZero ==
    (pc = "done" /\ op \in {"argmax", "argmin"} /\ NamedDimHasSize(1)) =>
        /\ err = "none"
        /\ ret.fill = <<0>>
        /\ \A o \in DOMAIN ret.data : ret.data[o] = 0
        /\ ~ret.iter
        /\ stub = <<>>
        /\ numel(args.self.shape) # 0 =>
              ret.data = argmax_argmin_reduce(
                             IF op = "argmax" THEN "argmax_stub" ELSE "argmin_stub",
                             args.self, args.dim, args.keepdim).data

\* argmin ran along the size-1 dimension of a 1 x 2 matrix, keeping the dim
C13_Witness ==
    /\ pc = "done"
    /\ op = "argmin"
    /\ args.self.shape = <<1, 2>>
    /\ args.dim = <<0 - 2>>
    /\ args.keepdim
    /\ ret.shape = <<1, 2>>
    /\ ret.fill = <<0>>
    /\ stub = <<>>

----------------------------------------------------------------------------
(* Properties of the out-variants.                                         *)

OutCalled ==
    /\ pc = "done"
    /\ op \in {"cummax_out", "cummin_out", "logcumsumexp_out", "diff_out"}

\* the k-th output view the caller passed differs from the input in dtype
\* (Long for the indices of cummax / cummin), device or layout
ViewMismatch(k) ==
    \/ args.out[k].dtype # (IF k = 2 THEN "Long" ELSE args.dtype)
    \/ args.out[k].device # "cpu"
    \/ args.out[k].layout # "Strided"

AnyViewMismatch == \E k \in DOMAIN args.out : ViewMismatch(k)

\* diff_out got past the checks on the input and its prepend / append
DiffOutChecked == op = "diff_out" /\ err # "ShapeMismatch"

\* C14 as stated: in cummax_out, cummin_out, logcumsumexp_out and diff_out
\* (n = 0 included) a dtype/device/layout mismatch of an output view is
\* reported, and after any error every output view is as the caller passed
\* it.
C14_MismatchLeavesOutputUnchanged ==
    OutCalled =>
        /\ (AnyViewMismatch /\ (op = "diff_out" => DiffOutChecked)) => err # "none"
        /\ err # "none" => ret.out = args.out

\* C14 on the code as it is: cummax_out, cummin_out and logcumsumexp_out
\* report every mismatch and leave the views unchanged on error; diff_out
\* with n # 0 leaves the view unchanged on error and reports a device or
\* layout mismatch; diff_out with n = 0 reports every mismatch, but with the
\* view already resized to the input's shape.
C14_OutputUnchangedExceptDiffOutCopy ==
    OutCalled =>
        /\ op # "diff_out" =>
              /\ AnyViewMismatch => err # "none"
              /\ err # "none" => ret.out = args.out
        /\ (op = "diff_out" /\ args.n # 0) =>
              /\ err # "none" => ret.out = args.out
              /\ (DiffOutChecked /\ (args.out[1].device # "cpu"
                                        \/ args.out[1].layout # "Strided"))
                    => err # "none"
        /\ (DiffOutChecked /\ args.n = 0) =>
              /\ AnyViewMismatch <=> err # "none"
              /\ ret.out[1].shape = args.self.shape
              /\ (args.out[1].shape = args.self.shape /\ err # "none")
                    => ret.out = args.out

\* diff_out with n = 0 rejected an output of another dtype after resizing
\* it to the input's two elements
C14_Witness ==
    /\ pc = "done"
    /\ op = "diff_out"
    /\ args.n = 0
    /\ args.dtype = "Long"
    /\ args.self.shape = <<2>>
    /\ args.out[1].dtype = "Float"
    /\ args.out[1].shape = <<1>>
    /\ err = "OptionsMismatch"
    /\ ret.out[1].shape = <<2>>

\* cummax_out rejected an indices view that is not Long and left both
\* views as they were
C14_WitnessCummax ==
    /\ pc = "done"
    /\ op = "cummax_out"
    /\ args.self.shape = <<2>>
    /\ args.out[2].dtype = "Float"
    /\ err = "OptionsMismatch"
    /\ ret.out = args.out

\* diff_out with n = 1 wrote a Long difference into a Float view
C14_WitnessCast ==
    /\ pc = "done"
    /\ op = "diff_out"
    /\ args.n = 1
    /\ args.dtype = "Long"
    /\ args.out[1].dtype = "Float"
    /\ err = "none"
    /\ ret.out[1].shape = <<1>>
    /\ ret.out[1].data[<<0>>] = Fin(1, 1)

----------------------------------------------------------------------------
(* Properties of gradient.                                                 *)

GradCalled == pc = "done" /\ op = "gradient"

WithCoordinates ==
    GradCalled /\ args.overload \in {"gradient_coordinates_dims",
                                     "gradient_coordinates_dim"}

\* the call named its dimensions (a list, or a single dim)
DimsGiven ==
    \/ args.overload \in {"gradient_coordinates_dims", "gradient_spacing_dims",
                          "gradient_scalar_dims", "gradient_dims"}
    \/ args.dim # <<>>

\* the dimensions the call differentiates along, as given
Differentiated ==
    IF DimsGiven THEN args.dim
    ELSE [k \in 1..Len(args.self.shape) |-> k - 1]

\* every named dimension is a dimension of the input
DimsInRange ==
    \A k \in 1..Len(Differentiated) :
        /\ Len(args.self.shape) >= 1
        /\ Differentiated[k] >= 0 - Len(args.self.shape)
        /\ Differentiated[k] < Len(args.self.shape)

AxisOf(d) == IF d < 0 THEN d + Len(args.self.shape) + 1 ELSE d + 1

ValidationErrors ==
    {"UnsupportedDtype", "SpacingLength", "EdgeOrder", "DimensionSize",
     "DeviceMismatch", "CoordinateRank"}

C15_WitnessDevice ==
    /\ WithCoordinates
    /\ Len(args.spacing) = 2
    /\ args.spacing[2].device = "cuda"
    /\ err = "DeviceMismatch"
    /\ ret.computed = <<>>

\* C16 as stated: gradient accepts only edge_order 1 or 2, and in every
\* overload an input with any dimension smaller than edge_order + 1 gets an
\* error and no gradient.
C16_AnySmallDimensionRejected ==
    GradCalled =>
        /\ args.edge_order \notin {1, 2} => (err # "none" /\ ~ret.returned)
        /\ (\E k \in 1..Len(args.self.shape) :
               args.self.shape[k] < args.edge_order + 1)
              => (err # "none" /\ ~ret.returned)

\* C16 amended: gradient accepts only edge_order 1 or 2; a dimension it
\* differentiates along (every dimension when no dim is given) that is
\* smaller than edge_order + 1 gets an error and no gradient, and the size
\* error is raised for such a dimension only: other dimensions may be
\* smaller.
C16_SmallDifferentiatedDimensionRejected ==
    GradCalled =>
        /\ args.edge_order \notin {1, 2} => (err # "none" /\ ~ret.returned)
        /\ (DimsInRange /\ \E k \in 1..Len(Differentiated) :
               args.self.shape[AxisOf(Differentiated[k])] < args.edge_order + 1)
              => (err # "none" /\ ~ret.returned)
        /\ err = "DimensionSize" =>
              /\ DimsInRange
              /\ \E k \in 1..Len(Differentiated) :
                    args.self.shape[AxisOf(Differentiated[k])] < args.edge_order + 1

\* a gradient along dim 0 was returned for an input whose other dimension
\* has size 1
C16_Witness ==
    /\ GradCalled
    /\ args.overload = "gradient_dims"
    /\ args.self.shape = <<2, 1>>
    /\ args.dim = <<0>>
    /\ args.edge_order = 1
    /\ err = "none"
    /\ ret.returned
    /\ ret.computed = <<0>>

\* a size error was raised for a differentiated dimension of size 2 with
\* edge_order 2
C16_WitnessRejected ==
    /\ GradCalled
    /\ args.self.shape = <<3, 2>>
    /\ args.dim = <<0 - 1>>
    /\ args.edge_order = 2
    /\ err = "DimensionSize"
    /\ ~ret.returned

----------------------------------------------------------------------------
(* Properties of cumprod_backward.                                         *)

CumprodBackwardCalled == pc = "done" /\ op = "cumprod_backward"

\* position (1-based, in the shape) of the scan dimension
ScanAxis ==
    IF args.dim < 0 THEN args.dim + Len(args.input.shape) + 1 ELSE args.dim + 1

InputHasZero == \E i \in DOMAIN args.input.data : args.input.data[i] = 0

\* the input has at most one element, or the scan dimension has size 1
NothingToScan ==
    \/ numel(args.input.shape) <= 1
    \/ args.input.shape[ScanAxis] = 1

\* C17: cumprod_backward returns grad unchanged when the input has at most
\* one element or the scan dimension has size 1; otherwise it uses the
\* closed form exactly when the input has no zero, the masked method
\* exactly when it has a zero and gradient mode is disabled, and the
\* omitted-product method exactly when it has a zero and gradient mode is
\* enabled.
C17_CumprodBackwardMethod ==
    CumprodBackwardCalled =>
        /\ ret.method \in {"grad", "closed_form", "masked", "omitted_products"}
        /\ ret.method = "grad" <=> NothingToScan
        /\ ret.method = "grad" =>
              \A i \in DOMAIN ret.data : ret.data[i] = Fin(args.grad.data[i], 1)
        /\ ret.method = "closed_form" <=> (~NothingToScan /\ ~InputHasZero)
        /\ ret.method = "masked" <=>
              (~NothingToScan /\ InputHasZero /\ ~args.grad_mode)
        /\ ret.method = "omitted_products" <=>
              (~NothingToScan /\ InputHasZero /\ args.grad_mode)

\* a matrix with a zero in one row only took the masked method
C17_Witness ==
    /\ CumprodBackwardCalled
    /\ args.input.shape = <<2, 2>>
    /\ args.dim = 0 - 1
    /\ args.input.data[<<0, 0>>] = 0
    /\ args.input.data[<<1, 0>>] # 0
    /\ args.input.data[<<1, 1>>] # 0
    /\ ~args.grad_mode
    /\ ret.method = "masked"

\* every method was taken
C17_WitnessOmitted ==
    /\ CumprodBackwardCalled
    /\ args.grad_mode
    /\ ret.method = "omitted_products"
    /\ err = "none"

\* the product of x[t] over t <= j, t # k
OmittedProduct(x, j, k) ==
    SeqProd([t \in 1..(j - 1) |-> x[IF t < k THEN t ELSE t + 1]])

\* the sum over j >= k of g[j] times the product of x[t] over t <= j, t # k
ExactGradient(g, x, k) ==
    SeqSum([s \in 1..(Len(x) - k + 1) |->
               g[k + s - 1] * OmittedProduct(x, k + s - 1, k)])

\* C18: for an input without a zero, at every position k the closed form
\* reverse_cumsum(output * grad)[k] / input[k] equals the sum over j >= k of
\* grad[j] times the product of input[i] over i <= j, i # k, which is also
\* what the omitted-product method computes.
C18_ClosedFormIsExactGradient ==
    (CumprodBackwardCalled /\ ret.method = "closed_form") =>
        \A i \in DOMAIN ret.data :
            LET g == Line(args.grad, i, ScanAxis)
                x == Line(args.input, i, ScanAxis)
                y == Line(args.output, i, ScanAxis)
                k == i[ScanAxis] + 1
            IN  /\ feq(ret.data[i], Fin(ExactGradient(g, x, k), 1))
                /\ feq(ret.data[i], cumprod_backward_omitted(g, x, y)[k])

\* the closed form ran on the vector [2, -1, 2] with grad [1, 2, -1] and
\* gave 1 at position 0
C18_Witness ==
    /\ CumprodBackwardCalled
    /\ ret.method = "closed_form"
    /\ args.input.shape = <<3>>
    /\ args.input.data[<<0>>] = 2
    /\ args.input.data[<<1>>] = 0 - 1
    /\ args.input.data[<<2>>] = 2
    /\ args.grad.data[<<0>>] = 1
    /\ args.grad.data[<<1>>] = 2
    /\ args.grad.data[<<2>>] = 0 - 1
    /\ feq(ret.data[<<0>>], Fin(1, 1))
    /\ feq(ret.data[<<2>>], Fin(2, 1))

----------------------------------------------------------------------------
(* Properties of the parallel reduction of std_var_all_cpu.                *)

ReductionStarted == op = "std_var_all_cpu" /\ pc \in {"reducing", "combining", "done"}

ReductionRunning == op = "std_var_all_cpu" /\ pc \in {"reducing", "combining"}

\* the threads that were handed a non-empty chunk
Busy == {tid \in 1..Len(ret.chunks) : ret.chunks[tid].begin < ret.chunks[tid].end}

\* this step combines a partial result into the sum
CombinationStarts == pc' = "combining"

\* C19: under every interleaving of the threads, a partial accumulator is
\* written by no thread but the one that handles its chunk, and the partial
\* results start being combined only once every thread has returned its
\* partial result.
C19_OwnAccumulatorAndJoinBarrier ==
    /\ [](ReductionStarted =>
            \A t \in 1..Len(ret.chunks) : ret.writers[t] \subseteq {t})
    /\ [][(ReductionRunning /\ CombinationStarts) =>
            \A t \in 1..Len(ret.chunks) : ret.returned[t]]_vars

\* two threads have each added their chunk to their own accumulator, both
\* have returned, and the first partial result has been combined
C19_Witness ==
    /\ op = "std_var_all_cpu" /\ pc = "combining"
    /\ Cardinality(Busy) >= 2
    /\ \A t \in Busy : ret.writers[t] = {t} /\ ret.returned[t]
    /\ ret.combined >= 1

\* the chunks partition [0, numel)
ChunksPartition ==
    \A j \in 0..(Len(args.self) - 1) :
        Cardinality({t \in 1..Len(ret.chunks) :
                        ret.chunks[t].begin <= j /\ j < ret.chunks[t].end}) = 1

\* C20: the chunks partition [0, numel), each element's squared deviation
\* is added to exactly one partial accumulator, and in exact arithmetic the
\* combined sum equals the serial single-pass sum, whatever the chunking,
\* the grain size and the schedule of the threads.
C20_ParallelSumEqualsSerialSum ==
    (op = "std_var_all_cpu" /\ pc = "done") =>
        /\ ChunksPartition
        /\ \A j \in 1..Len(args.self) : ret.hits[j] = 1
        /\ feq(ret.sum_dx2, sum_dx2_of(args.self))
        /\ ret.result = std_var_all_cpu(args.self, args.dtype, args.correction,
                                        args.take_sqrt).result

\* a reduction over two non-empty chunks of unequal values has finished
C20_Witness ==
    /\ op = "std_var_all_cpu" /\ pc = "done"
    /\ Cardinality(Busy) >= 2
    /\ ret.sum_dx2.n > 0
    /\ Len(args.self) = MaxLen

----------------------------------------------------------------------------
(* Further properties of cummax / cummin.                                  *)

InputIsNaN(i) == args.self.data[At(i)].k = "nan"

\* C21: a NaN at position p of the input makes the value at every position
\* from p on NaN and the index there the position of a NaN of the input;
\* an element that is not NaN never replaces a running value that is NaN.
C21_NaNPropagates ==
    ScanCalled =>
        /\ \A p, i \in ScanPositions :
              (InputIsNaN(p) /\ p <= i) =>
                  /\ ret.values[At(i)].k = "nan"
                  /\ ret.indices[At(i)] \in ScanPositions
                  /\ InputIsNaN(ret.indices[At(i)])
        /\ \A i \in ScanPositions :
              (i > 0 /\ ret.values[At(i - 1)].k = "nan" /\ ~InputIsNaN(i)) =>
                  /\ ret.values[At(i)].k = "nan"
                  /\ ret.indices[At(i)] = ret.indices[At(i - 1)]

\* a NaN in the middle of a vector was followed by a larger finite element
C21_Witness ==
    /\ ScanCalled
    /\ args.self.shape = <<3>>
    /\ args.self.data[<<0>>] = Fin(1, 1)
    /\ InputIsNaN(1)
    /\ args.self.data[<<2>>] = Fin(3, 1)
    /\ ret.values[<<2>>].k = "nan"
    /\ ret.indices[<<2>>] = 1

\* the input element at position j is no better than v for the operator
Bounds(v, j) ==
    IF op = "cummax"
    THEN less_equal(args.self.data[At(j)], v)
    ELSE greater_equal(args.self.data[At(j)], v)

\* C23: on a non-empty input values[i] is the input element at position
\* indices[i], and it is the maximum (cummax) or the minimum (cummin) of
\* the input elements at the positions 0..i when none of them is NaN.
C23_ValuesMatchIndices ==
    (ScanCalled /\ numel(args.self.shape) # 0) =>
        \A i \in ScanPositions :
            /\ ret.indices[At(i)] \in 0..i
            /\ SameValue(ret.values[At(i)], args.self.data[At(ret.indices[At(i)])])
            /\ (\A j \in 0..i : ~InputIsNaN(j)) =>
                  /\ \A j \in 0..i : Bounds(ret.values[At(i)], j)
                  /\ \E j \in 0..i : feq(ret.values[At(i)], args.self.data[At(j)])

\* cummin of [3, 1, 2] has the values [3, 1, 1] and the indices [0, 1, 1]
C23_Witness ==
    /\ pc = "done"
    /\ op = "cummin"
    /\ args.self = Vector(<<3, 1, 2>>)
    /\ ret.values = Vector(<<3, 1, 1>>).data
    /\ ret.indices = [i \in Indices(<<3>>) |-> <<0, 1, 1>>[i[1] + 1]]

----------------------------------------------------------------------------
(* Properties of the masked method of cumprod_backward.                    *)

\* the positions (1-based) of the zeros of the line x
ZerosOf(x) == {p \in 1..Len(x) : x[p] = 0}

\* the first zero of x, and the second one or the position past the end
FirstZero(x) == Least(ZerosOf(x))

SecondZero(x) ==
    IF ZerosOf(x) \ {FirstZero(x)} = {} THEN Len(x) + 1
    ELSE Least(ZerosOf(x) \ {FirstZero(x)})

\* the closed form restricted to the positions k..(z1 - 1)
RestrictedClosedForm(g, x, k, z1) ==
    Quotient(SeqSum([s \in 1..(z1 - k) |->
                        g[k + s - 1] * SeqProd(SubSeq(x, 1, k + s - 1))]),
             x[k])

\* prod(input[:z1]) * (grad[z1] + sum over j in (z1, z2) of
\* grad[j] * prod(input[z1+1..j]))
AtFirstZero(g, x, z1, z2) ==
    SeqProd(SubSeq(x, 1, z1 - 1))
        * (g[z1] + SeqSum([s \in 1..(z2 - z1 - 1) |->
                              g[z1 + s] * SeqProd(SubSeq(x, z1 + 1, z1 + s))]))

\* C22: when the input has a zero and gradient mode is disabled, the masked
\* method gives at every position k of a line with a zero the closed form
\* restricted to [0, z1) before the first zero z1, the product formula at
\* z1 and 0 after z1; at every position of every line, with or without a
\* zero, this is the sum over j >= k of grad[j] times the product of
\* input[i] over i <= j, i # k, which the omitted-product method computes.
C22_MaskedIsExactGradient ==
    (CumprodBackwardCalled /\ ret.method = "masked") =>
        \A i \in DOMAIN ret.data :
            LET g == Line(args.grad, i, ScanAxis)
                x == Line(args.input, i, ScanAxis)
                y == Line(args.output, i, ScanAxis)
                k == i[ScanAxis] + 1
            IN  /\ ZerosOf(x) # {} =>
                      LET z1 == FirstZero(x)
                          z2 == SecondZero(x)
                      IN  /\ k < z1 => feq(ret.data[i], RestrictedClosedForm(g, x, k, z1))
                          /\ k = z1 => feq(ret.data[i], Fin(AtFirstZero(g, x, z1, z2), 1))
                          /\ k > z1 => feq(ret.data[i], Fin(0, 1))
                /\ feq(ret.data[i], Fin(ExactGradient(g, x, k), 1))
                /\ feq(ret.data[i], cumprod_backward_omitted(g, x, y)[k])

\* the masked method ran on the vector [0, 2, 0] with grad [1, 2, -1]: the
\* first zero is at position 0 and the gradient there is 1 + 2 * 2 = 5
C22_Witness ==
    /\ CumprodBackwardCalled
    /\ ret.method = "masked"
    /\ args.input.shape = <<3>>
    /\ args.input.data[<<0>>] = 0
    /\ args.input.data[<<1>>] = 2
    /\ args.input.data[<<2>>] = 0
    /\ args.grad.data[<<0>>] = 1
    /\ args.grad.data[<<1>>] = 2
    /\ args.grad.data[<<2>>] = 0 - 1
    /\ feq(ret.data[<<0>>], Fin(5, 1))
    /\ feq(ret.data[<<1>>], Fin(0, 1))

\* the masked method ran on a matrix one of whose lines has no zero
C22_WitnessNoZeroLine ==
    /\ CumprodBackwardCalled
    /\ ret.method = "masked"
    /\ args.input.shape = <<2, 2>>
    /\ \E i \in DOMAIN ret.data : ZerosOf(Line(args.input, i, ScanAxis)) = {}

----------------------------------------------------------------------------
(* diff_out against diff.                                                  *)

\* diff_out was called as C24 has it: input of rank >= 1, n >= 0, and an
\* output view of the input's dtype, device and layout
DiffOutCompatible ==
    /\ pc = "done"
    /\ op = "diff_out"
    /\ Len(args.self.shape) >= 1
    /\ args.n >= 0
    /\ ~ViewMismatch(1)

\* what diff returns for the same arguments
DiffOfArgs ==
    diff(args.self, args.dtype, args.n, args.dim, args.prepend, args.append)

\* the tensor the helpers work on: the input with prepend and append
DiffOperand ==
    IF (~has_value(args.prepend) /\ ~has_value(args.append)) \/ args.n = 0
    THEN args.self
    ELSE prepend_append_on_dim(args.self, args.prepend, args.append, args.dim)

\* n >= 1 and the operand has no element along dim
EmptyAlongDim == args.n >= 1 /\ size(DiffOperand, args.dim) = 0

DiffOutAgrees ==
    /\ err = "none" <=> DiffOfArgs.err = "none"
    /\ err = "none" =>
          /\ ret.out[1].shape = DiffOfArgs.result.shape
          /\ ret.out[1].data = DiffOfArgs.result.data

\* C24 as stated: for every input of rank >= 1, n >= 0, dim and
\* prepend / append, sizes 0 and 1 along dim and n >= size included,
\* diff_out with a compatible output succeeds exactly when diff succeeds
\* and writes the values and the shape diff returns.
C24_DiffOutEqualsDiff == DiffOutCompatible => DiffOutAgrees

\* C24 on the code as it is: diff_out agrees with diff unless n >= 1 and
\* the operand has size 0 along dim; there diff returns the empty operand
\* and diff_out fails in narrow, leaving the output as it was.
C24_DiffOutEqualsDiffOffEmptyDim ==
    DiffOutCompatible =>
        /\ ~(diff_check(args.self, args.n, args.dim, args.prepend, args.append)
                /\ EmptyAlongDim) => DiffOutAgrees
        /\ (diff_check(args.self, args.n, args.dim, args.prepend, args.append)
                /\ EmptyAlongDim) =>
              /\ err = "IndexError"
              /\ DiffOfArgs.err = "none"
              /\ DiffOfArgs.result = DiffOperand
              /\ ret.out = args.out

\* diff_out of order n >= size on a vector of two elements emptied the
\* output, as diff does
C24_Witness ==
    /\ DiffOutCompatible
    /\ args.self.shape = <<2>>
    /\ args.n >= 2
    /\ ~has_value(args.prepend) /\ ~has_value(args.append)
    /\ err = "none"
    /\ ret.out[1].shape = <<0>>
    /\ DiffOfArgs.result.shape = <<0>>

\* diff_out of order 1 on the empty vector failed where diff succeeds
C24_WitnessEmpty ==
    /\ DiffOutCompatible
    /\ args.self.shape = <<0>>
    /\ args.n = 1
    /\ ~has_value(args.prepend) /\ ~has_value(args.append)
    /\ err = "IndexError"
    /\ DiffOfArgs.err = "none"

----------------------------------------------------------------------------
(* The spacing of gradient against its dimensions.                         *)

PreCheckErrors ==
    {"UnsupportedDtype", "SpacingLength", "EdgeOrder", "DimensionSize",
     "IndexError", "DuplicateDim"}

\* pre_check_gradient raised nothing
PreCheckPassed == GradCalled /\ err \notin PreCheckErrors

\* the number of spacing scalars or coordinate arrays the helper is given
SpacingCount == IF WithCoordinates THEN Len(args.spacing) ELSE args.spacing

\* one spacing scalar or coordinate array was given without a dim, for an
\* input whose rank is not 1
SingleSpacingForAllDims ==
    /\ args.overload \in {"gradient_coordinates_dim", "gradient_spacing_dim"}
    /\ args.dim = <<>>
    /\ SpacingCount = 1
    /\ Len(args.self.shape) # 1

\* C25 as stated: in every overload, when pre_check_gradient passes, the
\* number of spacing scalars or coordinate arrays equals the number of
\* differentiated dimensions, so no lookup spacing[i] / coordinates[i] is
\* out of bounds and a returned list has one tensor per such dimension.
C25_SpacingCountEqualsDims ==
    PreCheckPassed =>
        /\ SpacingCount = Len(Differentiated)
        /\ err # "OutOfBounds"
        /\ ret.returned => Len(ret.computed) = Len(Differentiated)

\* C25 on the code as it is: the counts are equal except when a list of
\* one spacing scalar or coordinate array comes with no dim, which the
\* pre-check accepts for any rank; on an input of rank 2 the helper then
\* looks up a second element the list does not have, and the call aborts,
\* fails on the rank of the stray element, or returns a tensor computed
\* from it.
C25_SpacingCountEqualsDimsUnlessSingle ==
    PreCheckPassed =>
        /\ ~SingleSpacingForAllDims =>
              /\ SpacingCount = Len(Differentiated)
              /\ err # "OutOfBounds"
        /\ SingleSpacingForAllDims =>
              /\ SpacingCount # Len(Differentiated)
              /\ err \in {"OutOfBounds", "none", "CoordinateRank", "DeviceMismatch"}
              /\ Len(args.self.shape) = 0 => (err # "OutOfBounds" /\ ret.computed = <<>>)
        /\ ret.returned => Len(ret.computed) = Len(Differentiated)

\* a list of one spacing scalar with no dim on a 2 x 2 input was accepted,
\* and two tensors were returned
C25_Witness ==
    /\ GradCalled
    /\ args.overload = "gradient_spacing_dim"
    /\ args.self.shape = <<2, 2>>
    /\ args.spacing = 1
    /\ args.dim = <<>>
    /\ args.edge_order = 1
    /\ err = "none"
    /\ ret.returned
    /\ Len(ret.computed) = 2

\* the same call with one coordinate array aborted in the second lookup
C25_WitnessAbort ==
    /\ GradCalled
    /\ args.overload = "gradient_coordinates_dim"
    /\ args.self.shape = <<2, 2>>
    /\ Len(args.spacing) = 1
    /\ args.dim = <<>>
    /\ err = "OutOfBounds"
    /\ Len(ret.computed) = 1

----------------------------------------------------------------------------
(* Properties of the whole-tensor path of std_var_out.                     *)

WholeTensorPath ==
    pc = "done" /\ op = "std_var_out" /\ ret.path = "std_var_all_cpu"

\* the dimensions (0-based) the call reduces
ReductionSet ==
    make_dim_mask(IF has_value(args.dim) THEN args.dim[1] ELSE <<>>,
                  Len(args.self.shape))

----------------------------------------------------------------------------
(* Properties of cpu_equal.                                                *)

EqualCalled == op = "cpu_equal" /\ pc = "done"

SameSize == Len(args.self) = Len(args.other)

AllElementsEqual == \A j \in 1..Len(args.self) : args.self[j] = args.other[j]

\* the flag is never set back to true
FlagOnlyCleared ==
    [][(op = "cpu_equal" /\ pc = "comparing" /\ ~ret.result) => ~ret'.result]_vars

\* C27 as stated: on two tensors of the same shape and dtype cpu_equal
\* returns true exactly when every pair of corresponding elements is
\* equal, under every partition and interleaving.
C27_TrueIffElementsEqual ==
    (EqualCalled /\ SameSize) => (ret.result <=> AllElementsEqual)

\* C27 amended: on two tensors of the same shape and dtype cpu_equal
\* returns true exactly when their dimension names agree and every pair of
\* corresponding elements is equal, under every partition and
\* interleaving; the flag is only ever changed from true to false, so a
\* thread that skips its chunk never causes a true result.
C27_TrueIffNamesAndElementsEqual ==
    /\ []((EqualCalled /\ SameSize) =>
             (ret.result <=> (args.names_equal /\ AllElementsEqual)))
    /\ FlagOnlyCleared

\* two threads compared vectors that differ in the first chunk only: the
\* second thread found its chunk equal or skipped it, and the result is
\* false
C27_Witness ==
    /\ EqualCalled
    /\ args.names_equal
    /\ args.num_threads = 2
    /\ args.grain_size = 1
    /\ Len(args.self) = 3
    /\ SameSize
    /\ args.self[1] # args.other[1]
    /\ args.self[3] = args.other[3]
    /\ ~ret.result

\* a thread skipped its chunk
C27_WitnessSkip ==
    /\ op = "cpu_equal" /\ pc = "comparing"
    /\ \E t \in 1..Len(ret.chunks) :
          /\ ret.at[t] = "done"
          /\ ret.chunks[t].begin < ret.chunks[t].end
          /\ ret.next[t] = ret.chunks[t].begin
          /\ \A j \in (ret.chunks[t].begin + 1)..ret.chunks[t].end :
                args.self[j] = args.other[j]
    /\ ~ret.result

\* equal elements under different names gave false
C27_WitnessNames ==
    /\ EqualCalled
    /\ SameSize
    /\ Len(args.self) = 2
    /\ AllElementsEqual
    /\ ~args.names_equal
    /\ ~ret.result

----------------------------------------------------------------------------
(* The dimension argmax / argmin read the input's sizes at.                *)

\* argmax or argmin was called with a dim and passed check_argmax_argmin
ArgDimValidated ==
    /\ pc = "done"
    /\ op \in {"argmax", "argmin"}
    /\ args.dim # <<>>
    /\ err = "none"

\* _dim of argmax_argmin_impl
WrappedDim == maybe_wrap_dim(args.dim[1], Len(args.self.shape))

\* C28 as stated: with a dim that passed validation, the wrapped index
\* _dim at which sizes[_dim] is read is a valid axis, 0 <= _dim < rank,
\* for every rank, rank 0 included.
C28_WrappedDimIsValidAxis ==
    ArgDimValidated => (0 <= WrappedDim /\ WrappedDim < Len(args.self.shape))

\* C28 on the code as it is: for rank >= 1 the wrapped index is a valid
\* axis and the size read there decides the shortcut; for rank 0, dim 0
\* and -1 pass validation and wrap to 0, which is no axis of the empty
\* sizes: whatever the read yields, the output is index 0.
C28_WrappedDimIsValidAxisUnlessScalar ==
    ArgDimValidated =>
        /\ Len(args.self.shape) >= 1 =>
              /\ 0 <= WrappedDim /\ WrappedDim < Len(args.self.shape)
              /\ ~ret.iter <=> args.self.shape[WrappedDim + 1] = 1
        /\ Len(args.self.shape) = 0 =>
              /\ args.dim[1] \in {0, 0 - 1}
              /\ WrappedDim = 0
              /\ \A o \in DOMAIN ret.data : ret.data[o] = 0

\* argmax of a scalar with dim 0 read a 1 past its empty sizes and filled
\* the output without an iterator
C28_Witness ==
    /\ ArgDimValidated
    /\ op = "argmax"
    /\ args.self.shape = <<>>
    /\ args.dim = <<0>>
    /\ ~ret.iter
    /\ ret.fill = <<0>>

\* the same call read another value and ran the kernel
C28_WitnessKernel ==
    /\ ArgDimValidated
    /\ op = "argmax"
    /\ args.self.shape = <<>>
    /\ args.dim = <<0>>
    /\ ret.iter
    /\ stub = <<"argmax_stub">>

----------------------------------------------------------------------------
(* Properties of logsumexp.                                                *)

\* logsumexp was called on an input with elements
LseNonEmpty == pc = "done" /\ op = "logsumexp" /\ numel(args.shape) # 0

\* the empty dims list, meaning every dimension, without keepdim, on an
\* input of rank >= 1
FullReductionDropped ==
    args.dims = <<>> /\ ~args.keepdim /\ Len(args.shape) >= 1

\* C29 as stated: on a non-empty input, for every dims list and keepdim,
\* the empty list without keepdim included, the maxima that are added back
\* have the shape of the sum, and the in-place add goes through.
C29_MaximaHaveShapeOfSum ==
    LseNonEmpty => (ret.maxes_squeezed[1] = ret.shape /\ err = "none")

\* C29 on the code as it is: the shapes agree except for the empty dims
\* list without keepdim on an input of rank >= 1: amax reduces every
\* dimension and keeps them, squeeze_multiple squeezes none for the empty
\* list, so the maxima keep rank(self) dimensions of size 1 while the sum
\* has rank 0, and the in-place add is rejected.
C29_MaximaHaveShapeOfSumUnlessEmptyDims ==
    LseNonEmpty =>
        /\ ~FullReductionDropped =>
              (ret.maxes_squeezed[1] = ret.shape /\ err = "none")
        /\ FullReductionDropped =>
              /\ ret.shape = <<>>
              /\ ret.maxes_squeezed[1] = [k \in 1..Len(args.shape) |-> 1]
              /\ err = "BroadcastShape"

\* logsumexp over the empty dims list of a 2 x 2 input without keepdim
\* was rejected in the add
C29_Witness ==
    /\ LseNonEmpty
    /\ args.shape = <<2, 2>>
    /\ args.dims = <<>>
    /\ ~args.keepdim
    /\ ret.maxes_squeezed = <<<<1, 1>>>>
    /\ ret.shape = <<>>
    /\ err = "BroadcastShape"

\* logsumexp over both named dimensions of a 2 x 2 input went through
C29_WitnessNamed ==
    /\ LseNonEmpty
    /\ args.shape = <<2, 2>>
    /\ Len(args.dims) = 2
    /\ ~args.keepdim
    /\ ret.maxes_squeezed = <<<<>>>>
    /\ err = "none"

----------------------------------------------------------------------------
(* Properties of the omitted-product loop of cumprod_backward.             *)

OmittedProductsTaken ==
    CumprodBackwardCalled /\ ret.method = "omitted_products"

\* C30: in the omitted-product branch, for every scan dimension of size
\* >= 2 and every k in [0, dim_size), omitted_products has size
\* dim_size - k along the scan dimension, so the check in the loop never
\* fails and the call does not abort with grad_input partly written.
C30_OmittedProductsSizeCheckHolds ==
    OmittedProductsTaken =>
        /\ args.input.shape[ScanAxis] >= 2
        /\ \A i \in DOMAIN args.input.data :
              LET x == Line(args.input, i, ScanAxis)
              IN  \A k \in 0..(Len(x) - 1) :
                      Len(omitted_products(x, k)) = Len(x) - k
        /\ err = "none"
        /\ DOMAIN ret.data = DOMAIN args.input.data

\* the loop ran its three kinds of iteration on a vector of three elements
\* with a zero in the middle
C30_Witness ==
    /\ OmittedProductsTaken
    /\ args.input.shape = <<3>>
    /\ args.input.data[<<1>>] = 0
    /\ args.input.data[<<0>>] = 2
    /\ err = "none"
    /\ Len(omitted_products(Line(args.input, <<0>>, 1), 1)) = 2

====
